---- MODULE Spec2Model ----
(***************************************************************************)
(* Coin-Pilot strategy-evaluation core: the decision engine                *)
(* (TradingStrategy), the technical indicators, the backtest simulator     *)
(* (BacktestEngine) and the genetic optimizer (ParameterOptimizer).        *)
(*                                                                         *)
(* JavaScript numbers are modelled as exact rationals [n |-> Int,          *)
(* d |-> Nat \ {0}] in lowest terms; toFixed(2) is modelled by rounding to *)
(* an integer number of hundredths.                                        *)
(***************************************************************************)
EXTENDS Integers, Sequences, FiniteSets, TLC

VARIABLES config, currentPosition, tradeHistory, lastCall, ret,
          btConfig, pc, balance, position, trades, balanceHistory,
          candleIndex, lastPrice, result, instance,
          optConfig, savedParams, historicalData, population, gen,
          bestIndividuals, optPc, runs, backtestRuns, parameterRanges

vars == <<config, currentPosition, tradeHistory, lastCall, ret,
          btConfig, pc, balance, position, trades, balanceHistory,
          candleIndex, lastPrice, result, instance,
          optConfig, savedParams, historicalData, population, gen,
          bestIndividuals, optPc, runs, backtestRuns, parameterRanges>>

engineVars == <<config, currentPosition, tradeHistory, lastCall, ret>>

backtestVars == <<btConfig, pc, balance, position, trades, balanceHistory,
                  candleIndex, lastPrice, result, instance>>

optimizerVars == <<optConfig, savedParams, historicalData, population, gen,
                   bestIndividuals, optPc, runs, backtestRuns, parameterRanges>>

(***************************************************************************)
(* Numbers                                                                 *)
(***************************************************************************)
Abs(x) == IF x < 0 THEN 0 - x ELSE x

RECURSIVE GCD(_, _)
GCD(a, b) == IF b = 0 THEN a ELSE GCD(b, a % b)

Frac(n, d) ==
    LET g == GCD(Abs(n), d) IN [n |-> n \div g, d |-> d \div g]

Q(i) == [n |-> i, d |-> 1]

RNeg(a) == [n |-> 0 - a.n, d |-> a.d]

RAdd(a, b) ==
    LET g == GCD(a.d, b.d)
    IN  Frac(a.n * (b.d \div g) + b.n * (a.d \div g), (a.d \div g) * b.d)

RSub(a, b) == RAdd(a, RNeg(b))

RMul(a, b) ==
    LET g1 == GCD(Abs(a.n), b.d)
        g2 == GCD(Abs(b.n), a.d)
    IN  [n |-> (a.n \div g1) * (b.n \div g2), d |-> (a.d \div g2) * (b.d \div g1)]

\* a / b; a division by zero gives NaN (0/0) or an infinity (+-1/0), as in JavaScript
RDiv(a, b) ==
    IF b.n = 0
    THEN [n |-> IF a.n > 0 THEN 1 ELSE IF a.n < 0 THEN -1 ELSE 0, d |-> 0]
    ELSE RMul(a, IF b.n < 0 THEN [n |-> 0 - b.d, d |-> 0 - b.n]
                 ELSE [n |-> b.d, d |-> b.n])

RLt(a, b) ==
    LET g == GCD(a.d, b.d) IN a.n * (b.d \div g) < b.n * (a.d \div g)

RLe(a, b) ==
    LET g == GCD(a.d, b.d) IN a.n * (b.d \div g) <= b.n * (a.d \div g)

RMin(a, b) == IF RLt(b, a) THEN b ELSE a

RMax(a, b) == IF RLt(a, b) THEN b ELSE a

\* Number.prototype.toFixed(2): the nearest number of hundredths, the larger
\* magnitude on a tie; the sign is kept.
ToFixed2(a) ==
    LET m == (200 * Abs(a.n) + a.d) \div (2 * a.d)
    IN  IF a.n < 0 THEN 0 - m ELSE m

\* parseFloat of a string printed with two decimals
ParseFloat(h) == Frac(h, 100)

\* null and undefined, as records so that they compare with any object
NULL == [isNull |-> TRUE]

UNDEFINED == [isUndefined |-> TRUE]

\* Number.prototype.toFixed(0)
ToFixed0(a) ==
    LET m == (2 * Abs(a.n) + a.d) \div (2 * a.d)
    IN  IF a.n < 0 THEN 0 - m ELSE m

(***************************************************************************)
(* Decision engine: TradingStrategy                                        *)
(***************************************************************************)
\* constructor defaults; a key the caller provides always wins (...config)
DefaultConfig ==
    [technicalWeight |-> Frac(6, 10), newsWeight |-> Frac(4, 10),
     buyThreshold |-> Q(55), sellThreshold |-> Q(55), buyOnly |-> FALSE,
     stopLossPercent |-> Q(5), takeProfitPercent |-> Q(10),
     maxPositionSize |-> Frac(3, 10), trendConfirmationPeriod |-> Q(3)]

TradingStrategy(cfg) ==
    [k \in (DOMAIN DefaultConfig) \cup (DOMAIN cfg) |->
        IF k \in DOMAIN cfg THEN cfg[k] ELSE DefaultConfig[k]]

\* comprehensiveAnalysis: the buy/sell signal counters of a snapshot whose raw
\* indicator values have two decimals, so that the printed values are exact
analysisSignals(ind, rsiOversold, rsiOverbought) ==
    LET rsi  == ParseFloat(ind.rsi)
        hist == ParseFloat(ind.macdHistogram)
        b1 == IF RLt(rsi, rsiOversold) THEN 1 ELSE 0
        s1 == IF RLt(rsiOverbought, rsi) THEN 1 ELSE 0
        b2 == IF hist.n > 0 THEN 1 ELSE 0
        s2 == IF hist.n < 0 THEN 1 ELSE 0
        b3 == IF ind.bbCurrent < ind.bbLower THEN 1 ELSE 0
        s3 == IF ind.bbCurrent > ind.bbUpper THEN 1 ELSE 0
        b4 == IF ind.crossover = "golden" THEN 2 ELSE 0
        s4 == IF ind.crossover = "dead" THEN 2 ELSE 0
        w  == IF ind.isHighVolume THEN Frac(12, 10) ELSE Q(1)
    IN  [buy  |-> RMul(Q(b1 + b2 + b3 + b4), w),
         sell |-> RMul(Q(s1 + s2 + s3 + s4), w)]

\* the object comprehensiveAnalysis returns for the indicator values ind
technicalAnalysisOf(ind, rsiOversold, rsiOverbought) ==
    [indicators |-> ind, signals |-> analysisSignals(ind, rsiOversold, rsiOverbought)]

Clamp0to100(x) == RMax(Q(0), RMin(Q(100), x))

calculateTechnicalScore(analysis) ==
    LET ind  == analysis.indicators
        rsi  == ParseFloat(ind.rsi)
        hist == ParseFloat(ind.macdHistogram)
        a1 == IF RLt(rsi, Q(30)) THEN Q(15)
              ELSE IF RLt(Q(70), rsi) THEN Q(-15)
              ELSE RDiv(RSub(Q(50), rsi), Q(4))
        a2 == IF hist.n > 0 THEN RMin(RMul(hist, Q(2)), Q(10))
              ELSE RMax(RMul(hist, Q(2)), Q(-10))
        a3 == IF ind.bbCurrent < ind.bbLower THEN Q(10)
              ELSE IF ind.bbCurrent > ind.bbUpper THEN Q(-10) ELSE Q(0)
        a4 == IF ind.crossover = "golden" THEN Q(15)
              ELSE IF ind.crossover = "dead" THEN Q(-15) ELSE Q(0)
        s4 == RAdd(RAdd(RAdd(RAdd(Q(50), a1), a2), a3), a4)
        a5 == IF ind.isHighVolume
              THEN IF RLt(Q(50), s4) THEN Q(5)
                   ELSE IF RLt(s4, Q(50)) THEN Q(-5) ELSE Q(0)
              ELSE Q(0)
        s5 == RAdd(s4, a5)
        s6 == RAdd(s5, RMul(RSub(analysis.signals.buy, analysis.signals.sell), Q(2)))
    IN  Clamp0to100(s6)

calculateNewsScore(sentiment) ==
    LET avgScore == ParseFloat(sentiment.score)
        positiveRatio == RDiv(ParseFloat(sentiment.positiveRatio), Q(100))
        negativeRatio == RDiv(ParseFloat(sentiment.negativeRatio), Q(100))
        s1 == RAdd(Q(50), RMul(avgScore, Q(5)))
        s2 == RAdd(s1, RMul(RSub(positiveRatio, negativeRatio), Q(20)))
        a3 == CASE sentiment.overall = "very positive" -> Q(15)
                [] sentiment.overall = "positive"      -> Q(8)
                [] sentiment.overall = "very negative" -> Q(-15)
                [] sentiment.overall = "negative"      -> Q(-8)
                [] OTHER                               -> Q(0)
    IN  Clamp0to100(RAdd(s2, a3))

totalScoreOf(cfg, technicalScore, newsScore) ==
    RAdd(RMul(technicalScore, cfg.technicalWeight), RMul(newsScore, cfg.newsWeight))

\* mutant: the STRONG and MEDIUM bands exchanged
strengthOfDistanceSwapped(d) ==
    IF RLe(Q(15), d) THEN [level |-> "VERY_STRONG", multiplier |-> 30, score |-> d]
    ELSE IF RLe(Q(8), d) THEN [level |-> "MEDIUM", multiplier |-> 15, score |-> d]
    ELSE IF RLe(Q(3), d) THEN [level |-> "STRONG", multiplier |-> 22, score |-> d]
    ELSE IF RLe(Q(0), d) THEN [level |-> "WEAK", multiplier |-> 10, score |-> d]
    ELSE [level |-> "NONE", multiplier |-> 0, score |-> Q(0)]

\* mutant: a distance below 0 still counts as WEAK
strengthOfDistanceFloorWeak(d) ==
    IF RLe(Q(15), d) THEN [level |-> "VERY_STRONG", multiplier |-> 30, score |-> d]
    ELSE IF RLe(Q(8), d) THEN [level |-> "STRONG", multiplier |-> 22, score |-> d]
    ELSE IF RLe(Q(3), d) THEN [level |-> "MEDIUM", multiplier |-> 15, score |-> d]
    ELSE [level |-> "WEAK", multiplier |-> 10, score |-> d]

\* level and multiplier (in tenths) of a distance past the threshold
strengthOfDistance(d) ==
    IF RLe(Q(15), d) THEN [level |-> "VERY_STRONG", multiplier |-> 30, score |-> d]
    ELSE IF RLe(Q(8), d) THEN [level |-> "STRONG", multiplier |-> 22, score |-> d]
    ELSE IF RLe(Q(3), d) THEN [level |-> "MEDIUM", multiplier |-> 15, score |-> d]
    ELSE IF RLe(Q(0), d) THEN [level |-> "WEAK", multiplier |-> 10, score |-> d]
    ELSE [level |-> "NONE", multiplier |-> 0, score |-> Q(0)]

calculateSignalStrength(cfg, totalScore, action) ==
    IF action = "BUY" THEN strengthOfDistance(RSub(totalScore, cfg.buyThreshold))
    ELSE IF action = "SELL"
         THEN strengthOfDistance(RSub(RSub(Q(100), cfg.sellThreshold), totalScore))
    ELSE [level |-> "NONE", multiplier |-> 0, score |-> Q(0)]

priceChangeOf(pos, currentPrice) ==
    RMul(RDiv(RSub(currentPrice, pos.entryPrice), pos.entryPrice), Q(100))

checkPosition(cfg, pos, currentPrice) ==
    IF pos = NULL THEN [shouldClose |-> FALSE, reason |-> "", type |-> ""]
    ELSE IF RLe(priceChangeOf(pos, currentPrice), RNeg(cfg.stopLossPercent))
         THEN [shouldClose |-> TRUE, reason |-> "STOP_LOSS", type |-> "STOP_LOSS"]
    ELSE IF RLe(cfg.takeProfitPercent, priceChangeOf(pos, currentPrice))
         THEN [shouldClose |-> TRUE, reason |-> "TAKE_PROFIT", type |-> "TAKE_PROFIT"]
    ELSE [shouldClose |-> FALSE, reason |-> "", type |-> ""]

\* mutant: the buyOnly flag is not consulted
scoreDecisionNoBuyOnly(cfg, totalScore) ==
    IF RLe(cfg.buyThreshold, totalScore)
    THEN [action |-> "BUY", reason |-> "BUY_SIGNAL",
          confidence |-> RDiv(RSub(totalScore, cfg.buyThreshold),
                              RSub(Q(100), cfg.buyThreshold))]
    ELSE IF RLe(totalScore, RSub(Q(100), cfg.sellThreshold))
    THEN [action |-> "SELL", reason |-> "SELL_SIGNAL",
          confidence |-> RDiv(RSub(cfg.sellThreshold, totalScore), cfg.sellThreshold)]
    ELSE [action |-> "HOLD", reason |-> "NO_SIGNAL", confidence |-> Frac(1, 2)]

\* mutant: the SELL range is tested before the BUY range
scoreDecisionSellFirst(cfg, totalScore) ==
    IF RLe(totalScore, RSub(Q(100), cfg.sellThreshold))
    THEN IF cfg.buyOnly
         THEN [action |-> "HOLD", reason |-> "BUY_ONLY_IGNORED", confidence |-> Frac(1, 2)]
         ELSE [action |-> "SELL", reason |-> "SELL_SIGNAL",
               confidence |-> RDiv(RSub(cfg.sellThreshold, totalScore), cfg.sellThreshold)]
    ELSE IF RLe(cfg.buyThreshold, totalScore)
    THEN [action |-> "BUY", reason |-> "BUY_SIGNAL",
          confidence |-> RDiv(RSub(totalScore, cfg.buyThreshold),
                              RSub(Q(100), cfg.buyThreshold))]
    ELSE [action |-> "HOLD", reason |-> "NO_SIGNAL", confidence |-> Frac(1, 2)]

\* the score branch of makeDecision: action, reason and confidence before the
\* stop-loss / take-profit override
scoreDecision(cfg, totalScore) ==
    IF RLe(cfg.buyThreshold, totalScore)
    THEN [action |-> "BUY", reason |-> "BUY_SIGNAL",
          confidence |-> RDiv(RSub(totalScore, cfg.buyThreshold),
                              RSub(Q(100), cfg.buyThreshold))]
    ELSE IF RLe(totalScore, RSub(Q(100), cfg.sellThreshold))
    THEN IF cfg.buyOnly
         THEN [action |-> "HOLD", reason |-> "BUY_ONLY_IGNORED", confidence |-> Frac(1, 2)]
         ELSE [action |-> "SELL", reason |-> "SELL_SIGNAL",
               confidence |-> RDiv(RSub(cfg.sellThreshold, totalScore), cfg.sellThreshold)]
    ELSE [action |-> "HOLD", reason |-> "NO_SIGNAL", confidence |-> Frac(1, 2)]

\* mutant: the override is skipped in buy-only mode
positionOverrideNotBuyOnly(cfg, pos, currentPrice, d) ==
    IF pos # NULL /\ ~cfg.buyOnly /\ checkPosition(cfg, pos, currentPrice).shouldClose
    THEN [action |-> "SELL", reason |-> checkPosition(cfg, pos, currentPrice).reason,
          confidence |-> Q(1)]
    ELSE d

\* the stop-loss / take-profit override of makeDecision
positionOverride(cfg, pos, currentPrice, d) ==
    IF pos # NULL /\ checkPosition(cfg, pos, currentPrice).shouldClose
    THEN [action |-> "SELL", reason |-> checkPosition(cfg, pos, currentPrice).reason,
          confidence |-> Q(1)]
    ELSE d

\* mutant: stop-loss / take-profit is looked at before the data is missed
missingDataDecisionStopChecked(cfg, pos, currentPrice) ==
    IF pos # NULL /\ checkPosition(cfg, pos, currentPrice).shouldClose
    THEN [action |-> "SELL", reason |-> checkPosition(cfg, pos, currentPrice).reason,
          confidence |-> 100]
    ELSE [action |-> "HOLD", reason |-> "NO_DATA", confidence |-> 0]

\* the early return of makeDecision: neither the configuration, the position
\* nor the price is read
missingDataDecision(cfg, pos, currentPrice) ==
    [action |-> "HOLD", reason |-> "NO_DATA", confidence |-> 0]

makeDecision(cfg, pos, technicalAnalysis, newsSentiment, currentPrice) ==
    IF technicalAnalysis = NULL \/ newsSentiment = NULL
    THEN missingDataDecision(cfg, pos, currentPrice)
    ELSE LET technicalScore == calculateTechnicalScore(technicalAnalysis)
             newsScore  == calculateNewsScore(newsSentiment)
             totalScore == totalScoreOf(cfg, technicalScore, newsScore)
             d == positionOverride(cfg, pos, currentPrice, scoreDecision(cfg, totalScore))
         IN  [action |-> d.action, reason |-> d.reason,
              confidence |-> ToFixed2(d.confidence),
              signalStrength |-> calculateSignalStrength(cfg, totalScore, d.action),
              scores |-> [technical |-> ToFixed2(technicalScore),
                          news |-> ToFixed2(newsScore),
                          total |-> ToFixed2(totalScore)]]

FEE_RATE == Frac(5, 10000)

\* the record openPosition pushes: a copy of the position, tagged OPEN
openRecord(pos) == [action |-> "OPEN"] @@ pos

\* openPosition(price, amount, type) at clock value now
openPosition(hist, price, amount, type, now) ==
    LET pos == [type |-> type, entryPrice |-> price, amount |-> amount,
                entryTime |-> now, id |-> now]
    IN  [currentPosition |-> pos,
         tradeHistory |-> Append(hist, openRecord(pos)),
         ret |-> UNDEFINED]

closePosition(pos, hist, price, reason, options, now) ==
    IF pos = NULL
    THEN [currentPosition |-> pos, tradeHistory |-> hist, ret |-> NULL]
    ELSE LET buyFee  == RMul(RMul(pos.entryPrice, pos.amount), FEE_RATE)
             sellFee == RMul(RMul(price, pos.amount), FEE_RATE)
             totalFee == RAdd(buyFee, sellFee)
             grossProfit == RMul(RSub(price, pos.entryPrice), pos.amount)
             netProfit == IF options.netProfit # UNDEFINED THEN options.netProfit
                          ELSE RSub(grossProfit, totalFee)
             netProfitPercent ==
                 RMul(RDiv(netProfit, RMul(pos.entryPrice, pos.amount)), Q(100))
             closedPosition ==
                 [exitPrice |-> price, exitTime |-> now, grossProfit |-> grossProfit,
                  profit |-> netProfit, profitPercent |-> netProfitPercent,
                  totalFee |-> totalFee, reason |-> reason] @@ pos
         IN  [currentPosition |-> NULL,
              tradeHistory |-> Append(hist, [action |-> "CLOSE"] @@ closedPosition),
              ret |-> closedPosition]

\* mutant: only a negative amount is rejected
partialSellRejectedStrict(pos, soldAmount) ==
    pos = NULL \/ RLt(soldAmount, Q(0))

\* the two early returns of recordPartialSell
partialSellRejected(pos, soldAmount) ==
    pos = NULL \/ RLe(soldAmount, Q(0))

\* mutant: the whole entry fee is charged to a partial sell
partialSellFeeFullEntry(pos, price, soldAmount) ==
    RAdd(RMul(RMul(pos.entryPrice, pos.amount), FEE_RATE),
         RMul(RMul(price, soldAmount), FEE_RATE))

\* the fee of a partial sell: entry fee of the sold amount plus exit fee
partialSellFee(pos, price, soldAmount) ==
    LET buyFeeForSold == RMul(RMul(pos.entryPrice, soldAmount), FEE_RATE)
        sellFee == RMul(RMul(price, soldAmount), FEE_RATE)
    IN  RAdd(buyFeeForSold, sellFee)

\* mutant: the OPEN record is the position object itself, so reducing the
\* position's amount shows in the history
historyAfterPartialSellAliased(hist, pos, rec) ==
    Append([i \in 1..Len(hist) |->
               IF hist[i].action = "OPEN" /\ hist[i].id = pos.id
               THEN [hist[i] EXCEPT !.amount = RSub(pos.amount, rec.amount)]
               ELSE hist[i]],
           [action |-> "PARTIAL_CLOSE"] @@ rec)

\* the history after recordPartialSell pushed rec and reduced the amount of pos
historyAfterPartialSell(hist, pos, rec) ==
    Append(hist, [action |-> "PARTIAL_CLOSE"] @@ rec)

\* mutant: selling exactly the whole amount is recorded as a partial close
sellsAllStrict(pos, soldAmount) == RLt(pos.amount, soldAmount)

\* soldAmount >= this.currentPosition.amount: the sale is a full close
sellsAll(pos, soldAmount) == RLe(pos.amount, soldAmount)

recordPartialSell(pos, hist, price, soldAmount, reason, now) ==
    IF partialSellRejected(pos, soldAmount)
    THEN [currentPosition |-> pos, tradeHistory |-> hist, ret |-> NULL]
    ELSE IF sellsAll(pos, soldAmount)
    THEN closePosition(pos, hist, price, reason, [netProfit |-> UNDEFINED], now)
    ELSE LET totalFee == partialSellFee(pos, price, soldAmount)
             grossProfit == RMul(RSub(price, pos.entryPrice), soldAmount)
             netProfit == RSub(grossProfit, totalFee)
             netProfitPercent ==
                 RMul(RDiv(netProfit, RMul(pos.entryPrice, soldAmount)), Q(100))
             partialClose ==
                 [type |-> pos.type, entryPrice |-> pos.entryPrice, exitPrice |-> price,
                  amount |-> soldAmount, originalAmount |-> pos.amount,
                  remainingAmount |-> RSub(pos.amount, soldAmount),
                  entryTime |-> pos.entryTime, exitTime |-> now,
                  grossProfit |-> grossProfit, profit |-> netProfit,
                  profitPercent |-> netProfitPercent, totalFee |-> totalFee,
                  reason |-> reason, id |-> pos.id]
         IN  [currentPosition |-> [pos EXCEPT !.amount = RSub(pos.amount, soldAmount)],
              tradeHistory |-> historyAfterPartialSell(hist, pos, partialClose),
              ret |-> partialClose]

\* mutant: partial closes are left out of every filter
SelectFullCloses(hist, actions) == {i \in 1..Len(hist) : hist[i].action = "CLOSE"}

SelectIdx(hist, actions) == {i \in 1..Len(hist) : hist[i].action \in actions}

RECURSIVE SumProfit(_, _)
SumProfit(hist, idx) ==
    IF idx = {} THEN Q(0)
    ELSE LET i == CHOOSE j \in idx : TRUE
         IN  RAdd(hist[i].profit, SumProfit(hist, idx \ {i}))

getStatistics(hist) ==
    LET allSellTrades == SelectIdx(hist, {"CLOSE", "PARTIAL_CLOSE"})
        winningTrades == {i \in allSellTrades : hist[i].profit.n > 0}
        totalProfit == SumProfit(hist, allSellTrades)
        count == Cardinality(allSellTrades)
    IN  IF count = 0
        THEN [totalTrades |-> 0, winRate |-> 0, totalProfit |-> 0]
        ELSE [totalTrades |-> count,
              fullCloses |-> Cardinality(SelectIdx(hist, {"CLOSE"})),
              partialCloses |-> Cardinality(SelectIdx(hist, {"PARTIAL_CLOSE"})),
              winningTrades |-> Cardinality(winningTrades),
              losingTrades |-> count - Cardinality(winningTrades),
              winRate |-> ToFixed2(RMul(Frac(Cardinality(winningTrades), count), Q(100))),
              totalProfit |-> ToFixed0(totalProfit),
              avgProfit |-> ToFixed0(RDiv(totalProfit, Q(count)))]

(***************************************************************************)
(* Inputs of the decision engine                                           *)
(***************************************************************************)
MaxHistory == 3

ThresholdValues == {40, 55, 80}

WeightValues == {[t |-> Frac(6, 10), n |-> Frac(4, 10)], [t |-> Q(1), n |-> Q(0)]}

StrategyConfigs ==
    {[buyThreshold |-> Q(b), sellThreshold |-> Q(s), buyOnly |-> o,
      technicalWeight |-> w.t, newsWeight |-> w.n] :
        b \in ThresholdValues, s \in ThresholdValues, o \in BOOLEAN, w \in WeightValues}

\* indicator values in hundredths, as comprehensiveAnalysis prints them
IndicatorValues ==
    [rsi : {2000, 4200, 8000}, macdHistogram : {-600, 200},
     bbCurrent : {10000}, bbLower : {9500, 10100}, bbUpper : {10500},
     crossover : {"golden", "none", "dead"}, isHighVolume : BOOLEAN]

TechnicalAnalyses ==
    {technicalAnalysisOf(ind, Q(30), Q(70)) : ind \in IndicatorValues} \cup {NULL}

NewsSentiments ==
    {[overall |-> "neutral", score |-> 0, positiveRatio |-> 3330, negativeRatio |-> 3330],
     [overall |-> "very positive", score |-> 300, positiveRatio |-> 8000,
      negativeRatio |-> 1000],
     NULL}

OpenPrices == {Q(100)}

ExitPrices == {Q(94), Q(110)}

DecisionPrices == {Q(94), Q(100), Q(110)}

Amounts == {Q(1), Q(2)}

SoldAmounts == {Q(-1), Q(0), Q(1), Q(2)}

CloseOptions == {[netProfit |-> UNDEFINED], [netProfit |-> Q(7)]}

\* Date.now(): one tick per recorded trade
Now == Len(tradeHistory) + 1

(***************************************************************************)
(* The decision engine as a state machine                                  *)
(***************************************************************************)
\* no optimizer has been constructed
IdleOptimizer ==
    /\ optConfig = NULL
    /\ savedParams = NULL
    /\ historicalData = NULL
    /\ population = <<>>
    /\ gen = 0
    /\ bestIndividuals = <<>>
    /\ optPc = "idle"
    /\ runs = <<>>
    /\ backtestRuns = 0
    /\ parameterRanges = <<>>

IdleBacktest ==
    /\ btConfig = NULL
    /\ pc = "idle"
    /\ balance = Q(0)
    /\ position = NULL
    /\ trades = <<>>
    /\ balanceHistory = <<>>
    /\ candleIndex = 0
    /\ lastPrice = NULL
    /\ result = NULL
    /\ instance = NULL

\* the configurations and makeDecision arguments of the lifecycle machine
LifecycleConfigs ==
    {c \in StrategyConfigs :
        /\ c.buyThreshold = Q(55) /\ c.sellThreshold = Q(55)
        /\ c.technicalWeight = Q(1)}

LifecycleAnalyses ==
    {technicalAnalysisOf(ind, Q(30), Q(70)) :
        ind \in {i \in IndicatorValues :
                    /\ i.bbLower = 9500 /\ ~i.isHighVolume /\ i.macdHistogram = 200
                    /\ \/ i.rsi = 2000 /\ i.crossover = "golden"
                       \/ i.rsi = 8000 /\ i.crossover = "dead"}}

LifecycleNews == {n \in NewsSentiments : n = NULL \/ n.overall = "neutral"}

Init ==
    /\ config \in {TradingStrategy(c) : c \in LifecycleConfigs}
    /\ currentPosition = NULL
    /\ tradeHistory = <<>>
    /\ lastCall = [op |-> "constructor"]
    /\ ret = UNDEFINED
    /\ IdleBacktest
    /\ IdleOptimizer

Apply(effect) ==
    /\ currentPosition' = effect.currentPosition
    /\ tradeHistory' = effect.tradeHistory
    /\ ret' = effect.ret

MakeDecision ==
    \E ta \in LifecycleAnalyses \cup {NULL}, news \in LifecycleNews,
       price \in DecisionPrices :
        /\ ret' = makeDecision(config, currentPosition, ta, news, price)
        /\ lastCall' = [op |-> "makeDecision", technicalAnalysis |-> ta,
                        newsSentiment |-> news, currentPrice |-> price]
        /\ UNCHANGED <<config, currentPosition, tradeHistory>>
        /\ UNCHANGED <<backtestVars, optimizerVars>>

OpenPosition ==
    \E price \in OpenPrices, amount \in Amounts :
        /\ Len(tradeHistory) < MaxHistory
        /\ Apply(openPosition(tradeHistory, price, amount, "BUY", Now))
        /\ lastCall' = [op |-> "openPosition", price |-> price, amount |-> amount]
        /\ UNCHANGED config
        /\ UNCHANGED <<backtestVars, optimizerVars>>

ClosePosition ==
    \E price \in ExitPrices, options \in CloseOptions :
        /\ Len(tradeHistory) < MaxHistory
        /\ Apply(closePosition(currentPosition, tradeHistory, price, "manual", options, Now))
        /\ lastCall' = [op |-> "closePosition", price |-> price, options |-> options,
                        position |-> currentPosition]
        /\ UNCHANGED config
        /\ UNCHANGED <<backtestVars, optimizerVars>>

RecordPartialSell ==
    \E price \in ExitPrices, soldAmount \in SoldAmounts :
        /\ Len(tradeHistory) < MaxHistory
        /\ Apply(recordPartialSell(currentPosition, tradeHistory, price, soldAmount,
                                   "partial", Now))
        /\ lastCall' = [op |-> "recordPartialSell", price |-> price,
                        soldAmount |-> soldAmount, position |-> currentPosition]
        /\ UNCHANGED config
        /\ UNCHANGED <<backtestVars, optimizerVars>>

GetStatistics ==
    /\ ret' = getStatistics(tradeHistory)
    /\ lastCall' = [op |-> "getStatistics"]
    /\ UNCHANGED <<config, currentPosition, tradeHistory>>
    /\ UNCHANGED <<backtestVars, optimizerVars>>

Next ==
    \/ MakeDecision
    \/ OpenPosition
    \/ ClosePosition
    \/ RecordPartialSell
    \/ GetStatistics

Spec == Init /\ [][Next]_vars

(***************************************************************************)
(* makeDecision on its own: the engine is constructed, the caller may open *)
(* a position, and then calls makeDecision once with the arguments drawn   *)
(* at the start.                                                           *)
(***************************************************************************)
InitDecision ==
    /\ config \in {TradingStrategy(c) : c \in StrategyConfigs}
    /\ currentPosition = NULL
    /\ tradeHistory = <<>>
    /\ lastCall \in [op : {"pending"}, technicalAnalysis : TechnicalAnalyses,
                     newsSentiment : NewsSentiments, currentPrice : DecisionPrices]
    /\ ret = UNDEFINED
    /\ IdleBacktest
    /\ IdleOptimizer

DecisionOpen ==
    /\ lastCall.op = "pending"
    /\ tradeHistory = <<>>
    /\ \E price \in OpenPrices :
          Apply(openPosition(tradeHistory, price, Q(1), "BUY", Now))
    /\ UNCHANGED <<config, lastCall>>
    /\ UNCHANGED <<backtestVars, optimizerVars>>

DecisionCall ==
    /\ lastCall.op = "pending"
    /\ ret' = makeDecision(config, currentPosition, lastCall.technicalAnalysis,
                           lastCall.newsSentiment, lastCall.currentPrice)
    /\ lastCall' = [lastCall EXCEPT !.op = "makeDecision"]
    /\ UNCHANGED <<config, currentPosition, tradeHistory>>
    /\ UNCHANGED <<backtestVars, optimizerVars>>

NextDecision == DecisionOpen \/ DecisionCall

SpecDecision == InitDecision /\ [][NextDecision]_vars

(***************************************************************************)
(* Properties of makeDecision (checked under SpecDecision)                 *)
(***************************************************************************)
DecisionReturned ==
    /\ lastCall.op = "makeDecision"
    /\ lastCall.technicalAnalysis # NULL
    /\ lastCall.newsSentiment # NULL

\* the total score of the last call, from its arguments
CallTechnical == calculateTechnicalScore(lastCall.technicalAnalysis)

CallNews == calculateNewsScore(lastCall.newsSentiment)

CallTotal ==
    RAdd(RMul(CallTechnical, config.technicalWeight), RMul(CallNews, config.newsWeight))

\* (currentPrice - entryPrice)/entryPrice*100 <= -stopLossPercent, cross-multiplied
StopLossHit ==
    /\ currentPosition # NULL
    /\ RLe(RMul(RSub(lastCall.currentPrice, currentPosition.entryPrice), Q(100)),
           RMul(RNeg(config.stopLossPercent), currentPosition.entryPrice))

\* (currentPrice - entryPrice)/entryPrice*100 >= takeProfitPercent, cross-multiplied
TakeProfitHit ==
    /\ currentPosition # NULL
    /\ RLe(RMul(config.takeProfitPercent, currentPosition.entryPrice),
           RMul(RSub(lastCall.currentPrice, currentPosition.entryPrice), Q(100)))

BuyScore == RLe(config.buyThreshold, CallTotal)

SellScore == RLe(CallTotal, RSub(Q(100), config.sellThreshold))

\* C1: when makeDecision is called with a snapshot and a sentiment summary while a
\* position is open and its price change is <= -stopLossPercent or
\* >= takeProfitPercent, the decision is SELL with confidence 1.00 and the
\* stop-loss (resp. take-profit) reason, whatever the score and buyOnly.
C1_ForcedSell ==
    (DecisionReturned /\ (StopLossHit \/ TakeProfitHit)) =>
        /\ ret.action = "SELL"
        /\ ret.confidence = 100
        /\ ret.reason = IF StopLossHit THEN "STOP_LOSS" ELSE "TAKE_PROFIT"

\* a take-profit forced on a buy-only engine whose score says BUY
C1_Witness ==
    /\ DecisionReturned
    /\ TakeProfitHit
    /\ config.buyOnly
    /\ BuyScore
    /\ ret.action = "SELL"

\* C2 as stated: with buyOnly set, SELL only on a triggered stop-loss/take-profit,
\* and a total score <= 100 - sellThreshold without such a trigger yields HOLD.
C2_Original ==
    (DecisionReturned /\ config.buyOnly) =>
        /\ ret.action = "SELL" => (StopLossHit \/ TakeProfitHit)
        /\ (SellScore /\ ~(StopLossHit \/ TakeProfitHit)) => ret.action = "HOLD"

\* C2 amended: with buyOnly set, SELL only on a triggered stop-loss/take-profit;
\* a total score <= 100 - sellThreshold without such a trigger never yields SELL:
\* it yields HOLD when the score is also below buyThreshold, and BUY otherwise.
C2_BuyOnly ==
    (DecisionReturned /\ config.buyOnly) =>
        /\ ret.action = "SELL" => (StopLossHit \/ TakeProfitHit)
        /\ (SellScore /\ ~(StopLossHit \/ TakeProfitHit)) =>
              /\ ret.action # "SELL"
              /\ ret.action = (IF BuyScore THEN "BUY" ELSE "HOLD")
              /\ ~BuyScore => ret.reason = "BUY_ONLY_IGNORED"

\* a sell score suppressed to HOLD while a position is open inside its band
C2_Witness ==
    /\ DecisionReturned
    /\ config.buyOnly
    /\ currentPosition # NULL
    /\ ~(StopLossHit \/ TakeProfitHit)
    /\ SellScore /\ ~BuyScore
    /\ ret.action = "HOLD"

\* C3: with no open position and buyOnly off, the action is BUY exactly when
\* totalScore >= buyThreshold, SELL exactly when totalScore < buyThreshold and
\* totalScore <= 100 - sellThreshold, HOLD otherwise; totalScore is
\* technicalScore*technicalWeight + newsScore*newsWeight, both scores in [0,100].
C3_ScoreAction ==
    (DecisionReturned /\ currentPosition = NULL /\ ~config.buyOnly) =>
        /\ RLe(Q(0), CallTechnical) /\ RLe(CallTechnical, Q(100))
        /\ RLe(Q(0), CallNews) /\ RLe(CallNews, Q(100))
        /\ ret.scores.technical = ToFixed2(CallTechnical)
        /\ ret.scores.news = ToFixed2(CallNews)
        /\ ret.scores.total = ToFixed2(CallTotal)
        /\ ret.action = "BUY" <=> BuyScore
        /\ ret.action = "SELL" <=> (~BuyScore /\ SellScore)
        /\ ret.action = "HOLD" <=> (~BuyScore /\ ~SellScore)

\* a score in both the BUY and the SELL range decided as BUY
C3_Witness ==
    /\ DecisionReturned
    /\ currentPosition = NULL /\ ~config.buyOnly
    /\ BuyScore /\ SellScore
    /\ ret.action = "BUY"

\* C4 as stated: every returned confidence is in [0,1] (hundredths 0..100).
C4_ConfidenceRange ==
    lastCall.op = "makeDecision" => (0 <= ret.confidence /\ ret.confidence <= 100)
\* a SELL whose score is above sellThreshold: the confidence is negative
C4_NegativeSeen ==
    /\ DecisionReturned
    /\ ret.action = "SELL"
    /\ ret.confidence < 0

TierRank(level) ==
    CASE level = "NONE" -> 0
      [] level = "WEAK" -> 1
      [] level = "MEDIUM" -> 2
      [] level = "STRONG" -> 3
      [] level = "VERY_STRONG" -> 4

\* the distance of a total score past the threshold of an action
DistanceOf(action, total) ==
    IF action = "BUY" THEN RSub(total, config.buyThreshold)
    ELSE RSub(RSub(Q(100), config.sellThreshold), total)

\* the tier table of the claim: rank and multiplier (tenths) of a distance
BandRank(d) ==
    IF RLe(Q(15), d) THEN 4
    ELSE IF RLe(Q(8), d) THEN 3
    ELSE IF RLe(Q(3), d) THEN 2
    ELSE IF RLe(Q(0), d) THEN 1 ELSE 0

BandMultiplier(rank) == CASE rank = 4 -> 30 [] rank = 3 -> 22 [] rank = 2 -> 15
                          [] rank = 1 -> 10 [] rank = 0 -> 0

MaxScoreGrid == 100

MissingDataCall ==
    /\ lastCall.op = "makeDecision"
    /\ (lastCall.technicalAnalysis = NULL \/ lastCall.newsSentiment = NULL)

\* C38: makeDecision called with a null indicator snapshot or a null sentiment
\* summary returns HOLD with confidence 0 and changes no engine state; stop-loss
\* and take-profit are not evaluated, so the result is HOLD even with an open
\* position whose price has breached either level.
C38_MissingData ==
    /\ [](MissingDataCall =>
             /\ ret.action = "HOLD"
             /\ ret.confidence = 0
             /\ ret.reason = "NO_DATA")
    /\ [][(lastCall.op = "pending" /\ lastCall'.op = "makeDecision"
            /\ (lastCall.technicalAnalysis = NULL \/ lastCall.newsSentiment = NULL)) =>
             UNCHANGED <<config, currentPosition, tradeHistory>>]_vars

\* no snapshot while the open position is past its stop-loss level
C38_Witness ==
    /\ MissingDataCall
    /\ lastCall.technicalAnalysis = NULL
    /\ lastCall.newsSentiment # NULL
    /\ StopLossHit
    /\ ret.action = "HOLD"
    /\ currentPosition # NULL

\* no sentiment summary while the open position is past its take-profit level
C38_TakeProfitSeen ==
    /\ MissingDataCall
    /\ lastCall.technicalAnalysis # NULL
    /\ lastCall.newsSentiment = NULL
    /\ TakeProfitHit
    /\ ret.action = "HOLD"

\* C39: with buyThreshold + sellThreshold <= 100, buyOnly off and no open
\* position, makeDecision never returns HOLD for a non-null input: the action is
\* BUY when totalScore >= buyThreshold (even if totalScore <= 100 - sellThreshold
\* holds too) and SELL otherwise.
C39_NoHold ==
    ( /\ DecisionReturned
      /\ currentPosition = NULL
      /\ ~config.buyOnly
      /\ RLe(RAdd(config.buyThreshold, config.sellThreshold), Q(100)) ) =>
        /\ ret.action # "HOLD"
        /\ BuyScore => ret.action = "BUY"
        /\ ~BuyScore => (SellScore /\ ret.action = "SELL")

\* thresholds 40 and 40: a score in both ranges decided as BUY
C39_Witness ==
    /\ DecisionReturned
    /\ currentPosition = NULL /\ ~config.buyOnly
    /\ config.buyThreshold = Q(40) /\ config.sellThreshold = Q(40)
    /\ BuyScore /\ SellScore
    /\ ret.action = "BUY"

\* thresholds 40 and 55: a score below buyThreshold decided as SELL
C39_SellSeen ==
    /\ DecisionReturned
    /\ currentPosition = NULL /\ ~config.buyOnly
    /\ config.buyThreshold = Q(40) /\ config.sellThreshold = Q(55)
    /\ ~BuyScore
    /\ ret.action = "SELL"

\* the tier a forced SELL carries: that of the score alone
ForcedSellTier ==
    (DecisionReturned /\ (StopLossHit \/ TakeProfitHit)) =>
        /\ ret.action = "SELL"
        /\ ret.signalStrength = calculateSignalStrength(config, CallTotal, "SELL")
        /\ ~SellScore =>
              /\ ret.signalStrength.level = "NONE"
              /\ ret.signalStrength.multiplier = 0
              /\ ret.confidence = 100

BuyTier ==
    ret.action = "BUY" =>
        /\ "signalStrength" \in DOMAIN ret
        /\ TierRank(ret.signalStrength.level) >= 1
        /\ ret.signalStrength.multiplier >= 10

C40_UntieredHoldSeen ==
    /\ MissingDataCall
    /\ ret.action = "HOLD"
    /\ "signalStrength" \notin DOMAIN ret

\* a scored HOLD with tier NONE
C40_ScoredHoldSeen ==
    /\ DecisionReturned
    /\ ret.action = "HOLD"
    /\ ret.signalStrength.level = "NONE"

(***************************************************************************)
(* Properties of the position lifecycle (checked under Spec)               *)
(***************************************************************************)
\* C6: tradeHistory only grows by appending: across every step each record keeps
\* its index and all its fields, the amount of an OPEN record included when
\* recordPartialSell reduces the position's amount.
C6_AppendOnly ==
    [][ /\ Len(tradeHistory') >= Len(tradeHistory)
        /\ \A i \in 1..Len(tradeHistory) : tradeHistory'[i] = tradeHistory[i] ]_vars

\* a partial sell left the position smaller than its OPEN record says
C6_Witness ==
    /\ lastCall.op = "recordPartialSell"
    /\ currentPosition # NULL
    /\ \E i \in 1..Len(tradeHistory) :
          /\ tradeHistory[i].action = "OPEN"
          /\ tradeHistory[i].id = currentPosition.id
          /\ tradeHistory[i].amount # currentPosition.amount

IsSellRecord(r) == r.action \in {"CLOSE", "PARTIAL_CLOSE"}

GrossOf(r) == RMul(RSub(r.exitPrice, r.entryPrice), r.amount)

FeeOf(r) ==
    RAdd(RMul(RMul(r.entryPrice, r.amount), Frac(5, 10000)),
         RMul(RMul(r.exitPrice, r.amount), Frac(5, 10000)))

C8_NoOp ==
    [][ ( \/ lastCall'.op = "closePosition" /\ currentPosition = NULL
          \/ lastCall'.op = "recordPartialSell" /\ currentPosition = NULL
          \/ lastCall'.op = "recordPartialSell" /\ RLe(lastCall'.soldAmount, Q(0)) )
        => ( /\ ret' = NULL
             /\ currentPosition' = currentPosition
             /\ tradeHistory' = tradeHistory ) ]_vars

\* a partial sell of amount 0 refused while a position is open
C8_Witness ==
    /\ lastCall.op = "recordPartialSell"
    /\ lastCall.soldAmount = Q(0)
    /\ lastCall.position # NULL
    /\ ret = NULL
    /\ currentPosition = lastCall.position

\* C28: recordPartialSell with 0 < soldAmount < amount appends one PARTIAL_CLOSE
\* record for soldAmount and leaves the position open with the same id, type,
\* entry price and entry time and its amount reduced by exactly soldAmount (so
\* still positive); with soldAmount >= amount it does what closePosition does:
\* one CLOSE record for the whole remaining amount, and the position is cleared.
C28_PartialOrFullClose ==
    [][ (lastCall'.op = "recordPartialSell" /\ currentPosition # NULL
           /\ RLt(Q(0), lastCall'.soldAmount))
        => LET sold == lastCall'.soldAmount
               last == tradeHistory'[Len(tradeHistory')]
               closed == closePosition(currentPosition, tradeHistory, lastCall'.price,
                                       "partial", [netProfit |-> UNDEFINED], Now)
           IN  /\ Len(tradeHistory') = Len(tradeHistory) + 1
               /\ RLt(sold, currentPosition.amount) =>
                     /\ last.action = "PARTIAL_CLOSE"
                     /\ last.amount = sold
                     /\ currentPosition' # NULL
                     /\ currentPosition'.id = currentPosition.id
                     /\ currentPosition'.type = currentPosition.type
                     /\ currentPosition'.entryPrice = currentPosition.entryPrice
                     /\ currentPosition'.entryTime = currentPosition.entryTime
                     /\ currentPosition'.amount = RSub(currentPosition.amount, sold)
                     /\ RLt(Q(0), currentPosition'.amount)
               /\ RLe(currentPosition.amount, sold) =>
                     /\ last.action = "CLOSE"
                     /\ last.amount = currentPosition.amount
                     /\ currentPosition' = NULL
                     /\ currentPosition' = closed.currentPosition
                     /\ tradeHistory' = closed.tradeHistory
                     /\ ret' = closed.ret ]_vars

\* half of a position of 2 was sold: a PARTIAL_CLOSE for 1, and 1 stays open
C28_Witness ==
    /\ lastCall.op = "recordPartialSell"
    /\ lastCall.position # NULL
    /\ lastCall.position.amount = Q(2)
    /\ lastCall.soldAmount = Q(1)
    /\ tradeHistory[Len(tradeHistory)].action = "PARTIAL_CLOSE"
    /\ currentPosition # NULL
    /\ currentPosition.amount = Q(1)

\* the rest of a position was sold by recordPartialSell: a CLOSE, nothing open
C28_FullCloseSeen ==
    /\ lastCall.op = "recordPartialSell"
    /\ lastCall.position # NULL
    /\ lastCall.soldAmount = lastCall.position.amount
    /\ tradeHistory[Len(tradeHistory)].action = "CLOSE"
    /\ currentPosition = NULL

StatisticsReturned == lastCall.op = "getStatistics"

CountOf(action) ==
    Cardinality({i \in 1..Len(tradeHistory) : tradeHistory[i].action = action})

SellIdx == {i \in 1..Len(tradeHistory) : IsSellRecord(tradeHistory[i])}

WinningIdx == {i \in SellIdx : RLt(Q(0), tradeHistory[i].profit)}

\* C29 as stated: getStatistics counts only CLOSE and PARTIAL_CLOSE records:
\* totalTrades = number of CLOSE + number of PARTIAL_CLOSE = winningTrades +
\* losingTrades, a record is winning exactly when its net profit is > 0, and
\* totalProfit is the sum of their net profits.
C29_Original ==
    StatisticsReturned =>
        /\ ret.totalTrades = CountOf("CLOSE") + CountOf("PARTIAL_CLOSE")
        /\ {"winningTrades", "losingTrades"} \subseteq DOMAIN ret
        /\ ret.totalTrades = ret.winningTrades + ret.losingTrades
        /\ ret.winningTrades = Cardinality(WinningIdx)
        /\ Q(ret.totalProfit) = SumProfit(tradeHistory, SellIdx)

\* C29 amended: totalTrades = number of CLOSE + number of PARTIAL_CLOSE records
\* (OPEN records never count); with at least one such record totalTrades =
\* winningTrades + losingTrades, winningTrades counts exactly the records whose
\* net profit is > 0, and totalProfit is the sum of their net profits rounded to
\* a whole number; with none the result has totalTrades 0, winRate 0,
\* totalProfit 0 and no winningTrades or losingTrades.
C29_Statistics ==
    StatisticsReturned =>
        /\ ret.totalTrades = CountOf("CLOSE") + CountOf("PARTIAL_CLOSE")
        /\ SellIdx # {} =>
              /\ ret.totalTrades = ret.winningTrades + ret.losingTrades
              /\ ret.winningTrades = Cardinality(WinningIdx)
              /\ ret.losingTrades = Cardinality(SellIdx \ WinningIdx)
              /\ ret.totalProfit = ToFixed0(SumProfit(tradeHistory, SellIdx))
        /\ SellIdx = {} =>
              ret = [totalTrades |-> 0, winRate |-> 0, totalProfit |-> 0]

\* statistics over an OPEN, a PARTIAL_CLOSE and a CLOSE record, one sale won and
\* one lost, the profits not adding up to a whole number
C29_Witness ==
    /\ StatisticsReturned
    /\ CountOf("OPEN") = 1
    /\ CountOf("PARTIAL_CLOSE") = 1
    /\ CountOf("CLOSE") = 1
    /\ ret.totalTrades = 2
    /\ ret.winningTrades = 1
    /\ ret.losingTrades = 1
    /\ Q(ret.totalProfit) # SumProfit(tradeHistory, SellIdx)

\* statistics asked while the history holds no sale
C29_NoSaleSeen ==
    /\ StatisticsReturned
    /\ CountOf("OPEN") = 1
    /\ SellIdx = {}

(***************************************************************************)
(* Technical indicators                                                    *)
(***************************************************************************)
\* a thrown Error
THROWS == [throws |-> TRUE]

\* Array.prototype.reverse
Reverse(s) == [i \in 1..Len(s) |-> s[Len(s) + 1 - i]]

\* the gain (side "gain") or the loss (side "loss") of one price difference
\* in the first-average loop: a difference >= 0 adds to the gains, else to the
\* losses
firstPart(difference, side) ==
    IF side = "gain" THEN (IF difference.n >= 0 THEN difference ELSE Q(0))
    ELSE (IF difference.n >= 0 THEN Q(0) ELSE RNeg(difference))

RECURSIVE firstSum(_, _, _, _)
\* gains (or losses) summed over the differences i..period of the first loop
firstSum(prices, i, period, side) ==
    IF i > period THEN Q(0)
    ELSE RAdd(firstPart(RSub(prices[i + 1], prices[i]), side),
              firstSum(prices, i + 1, period, side))

\* mutant: the smoothing step subtracts the current value
smoothStepSubtract(avg, current, period) ==
    RDiv(RSub(RMul(avg, Q(period - 1)), current), Q(period))

\* one Wilder smoothing step
smoothStep(avg, current, period) ==
    RDiv(RAdd(RMul(avg, Q(period - 1)), current), Q(period))

RECURSIVE smoothRange(_, _, _, _, _, _)
\* the smoothing loop run over prices lo..hi starting from avg: the steps are
\* applied in the loop's order; the range is split in halves and the average
\* after the first half is computed before the second half starts, so that a
\* long series does not nest one evaluation per candle
smoothRange(prices, lo, hi, period, avg, side) ==
    IF lo > hi THEN avg
    ELSE IF lo = hi
    THEN smoothStep(avg, firstPart(RSub(prices[lo], prices[lo - 1]), side), period)
    ELSE LET mid == (lo + hi) \div 2
         IN  CHOOSE after \in
                 { smoothRange(prices, mid + 1, hi, period, before, side) :
                     before \in { smoothRange(prices, lo, mid, period, avg, side) } } : TRUE

\* avgGain / avgLoss once the smoothing loop has handled price i
averageAfter(prices, i, period, side) ==
    smoothRange(prices, period + 2, i, period,
                RDiv(firstSum(prices, 1, period, side), Q(period)), side)

\* avgGain / avgLoss of calculateRSI with every intermediate value: the first
\* average, then the average after each smoothing step
averages(prices, period, side) ==
    [k \in 1..(Len(prices) - period) |-> averageAfter(prices, period + k, period, side)]

\* mutant: the guard accepts a window of exactly period candles
calculateRSIThrowsOffByOne(candles, period) == Len(candles) < period

calculateRSIThrows(candles, period) == Len(candles) < period + 1

\* mutant: a series without any gain or loss reads 50
calculateRSINeutralFlat(candles, period) ==
    IF calculateRSIThrows(candles, period) THEN THROWS
    ELSE LET prices == Reverse(candles)
             avgLoss == averageAfter(prices, Len(prices), period, "loss")
             avgGain == averageAfter(prices, Len(prices), period, "gain")
         IN  IF avgLoss = Q(0) THEN (IF avgGain = Q(0) THEN Q(50) ELSE Q(100))
             ELSE RSub(Q(100), RDiv(Q(100), RAdd(Q(1), RDiv(avgGain, avgLoss))))

\* candles: trade prices, newest first
calculateRSI(candles, period) ==
    IF calculateRSIThrows(candles, period) THEN THROWS
    ELSE LET prices == Reverse(candles)
             avgLoss == averageAfter(prices, Len(prices), period, "loss")
             avgGain == averageAfter(prices, Len(prices), period, "gain")
         IN  IF avgLoss = Q(0) THEN Q(100)
             ELSE RSub(Q(100), RDiv(Q(100), RAdd(Q(1), RDiv(avgGain, avgLoss))))

calculateMACDThrows(candles, slowPeriod, signalPeriod) ==
    Len(candles) < slowPeriod + signalPeriod

calculateBollingerBandsThrows(candles, period) == Len(candles) < period

calculateMAThrows(candles, period) == Len(candles) < period

\* checkCrossover returns 'none' on a short window before it calls calculateMA
checkCrossoverThrows(candles, shortPeriod, longPeriod) ==
    IF Len(candles) < longPeriod + 1 THEN FALSE
    ELSE \/ calculateMAThrows(candles, shortPeriod)
         \/ calculateMAThrows(candles, longPeriod)
         \/ calculateMAThrows(Tail(candles), shortPeriod)
         \/ calculateMAThrows(Tail(candles), longPeriod)

\* the defaults comprehensiveAnalysis destructures from its config
DefaultAnalysisConfig ==
    [rsiPeriod |-> 14, rsiOversold |-> 30, rsiOverbought |-> 70, macdFast |-> 12,
     macdSlow |-> 26, macdSignal |-> 9, bbPeriod |-> 20, bbStdDev |-> 2]

\* a key the caller leaves out is undefined and takes its default
AnalysisConfig(cfg) ==
    [k \in DOMAIN DefaultAnalysisConfig |->
        IF k \in DOMAIN cfg THEN cfg[k] ELSE DefaultAnalysisConfig[k]]

\* comprehensiveAnalysis returns null: a sub-indicator threw inside the try
\* (analyzeVolume has no throw; checkCrossover is called with its defaults 5, 20)
comprehensiveAnalysisIsNull(candles, cfg) ==
    LET c == AnalysisConfig(cfg)
    IN  \/ calculateRSIThrows(candles, c.rsiPeriod)
        \/ calculateMACDThrows(candles, c.macdSlow, c.macdSignal)
        \/ calculateBollingerBandsThrows(candles, c.bbPeriod)
        \/ checkCrossoverThrows(candles, 5, 20)

(***************************************************************************)
(* The indicators on their own: a call is drawn at the start and made once *)
(***************************************************************************)
\* longest enumerated price series
MaxCandles == 5

\* longest window given to comprehensiveAnalysis
MaxWindow == 40

PriceValues == {Q(0), Q(1), Q(3)}

RsiPeriods == {1, 2, 3}

SmallSeries == UNION {[1..n -> PriceValues] : n \in 0..MaxCandles}

\* 220 candles, oldest first: flat at 100 for 200 candles, then +1 per candle
\* up to 120 (20% over the last 20 candles)
FlatThenSpike == [i \in 1..220 |-> IF i <= 200 THEN Q(100) ELSE Q(i - 100)]

\* the candles k..m of a series as the indicators take them: newest first
Window(series, k, m) == Reverse(SubSeq(series, k, m))

FlatWindows == {Window(FlatThenSpike, 1, 200), Window(FlatThenSpike, 186, 200)}

AbsorbedWindows == {Window(FlatThenSpike, 1, 220), Window(FlatThenSpike, 206, 220)}

RsiCalls ==
    [op : {"pending"}, fn : {"calculateRSI"}, candles : SmallSeries, period : RsiPeriods]
    \cup [op : {"pending"}, fn : {"calculateRSI"},
          candles : FlatWindows \cup AbsorbedWindows, period : {14}]

AnalysisConfigs ==
    [rsiPeriod : {7, 14, 36}, macdSlow : {10, 26}, macdSignal : {5, 9},
     bbPeriod : {10, 20, 38}]

AnalysisCalls ==
    [op : {"pending"}, fn : {"comprehensiveAnalysis"},
     candles : {[i \in 1..n |-> Q(100)] : n \in 0..MaxWindow}, config : AnalysisConfigs]

InitIndicators ==
    /\ lastCall \in RsiCalls \cup AnalysisCalls
    /\ ret = UNDEFINED
    /\ config = NULL
    /\ currentPosition = NULL
    /\ tradeHistory = <<>>
    /\ IdleBacktest
    /\ IdleOptimizer

CallRSI ==
    /\ lastCall.op = "pending"
    /\ lastCall.fn = "calculateRSI"
    /\ ret' = calculateRSI(lastCall.candles, lastCall.period)
    /\ lastCall' = [lastCall EXCEPT !.op = "returned"]
    /\ UNCHANGED <<config, currentPosition, tradeHistory>>
    /\ UNCHANGED <<backtestVars, optimizerVars>>

\* the snapshot itself is not computed here, only whether there is one
CallComprehensiveAnalysis ==
    /\ lastCall.op = "pending"
    /\ lastCall.fn = "comprehensiveAnalysis"
    /\ ret' = IF comprehensiveAnalysisIsNull(lastCall.candles, lastCall.config)
              THEN NULL ELSE [snapshot |-> TRUE]
    /\ lastCall' = [lastCall EXCEPT !.op = "returned"]
    /\ UNCHANGED <<config, currentPosition, tradeHistory>>
    /\ UNCHANGED <<backtestVars, optimizerVars>>

NextIndicators == CallRSI \/ CallComprehensiveAnalysis

SpecIndicators == InitIndicators /\ [][NextIndicators]_vars

(***************************************************************************)
(* Backtest simulator: BacktestEngine                                      *)
(***************************************************************************)
\* constructor defaults of BacktestEngine; a key the caller provides wins
DefaultBacktestConfig ==
    [initialBalance |-> Q(1000000), tradingFee |-> Frac(5, 10000),
     slippage |-> Frac(1, 1000)]

BacktestEngine(cfg) ==
    [k \in (DOMAIN DefaultBacktestConfig) \cup (DOMAIN cfg) |->
        IF k \in DOMAIN cfg THEN cfg[k] ELSE DefaultBacktestConfig[k]]

\* the other fields the constructor sets: this.results = [], this.trades = []
newInstance == [results |-> <<>>, trades |-> <<>>]

\* the end of run(): this.results.push(result); this.trades = trades
instanceAfterRun(this, runResult, runTrades) ==
    [results |-> Append(this.results, runResult), trades |-> runTrades]

\* the sentiment run() feeds the strategy: neutral, ratios '33.3%'
mockNewsSentiment ==
    [overall |-> "neutral", score |-> 0, positiveRatio |-> 3330, negativeRatio |-> 3330]

applySlippage(bt, price, side) ==
    IF side = "buy" THEN RMul(price, RAdd(Q(1), bt.slippage))
    ELSE RMul(price, RSub(Q(1), bt.slippage))

\* the profit field of a CLOSE trade
closeProfit(bt, pos, sellPrice) ==
    RMul(RSub(sellPrice, pos.entryPrice), pos.amount)

\* the three places of run() that close the position: proceeds less fee go to
\* the balance and a CLOSE trade is pushed
closeTrade(bt, st, sellPrice, reason, timestamp) ==
    LET sellAmount == RMul(st.position.amount, sellPrice)
        fee == RMul(sellAmount, bt.tradingFee)
        newBalance == RAdd(st.balance, RSub(sellAmount, fee))
        profit == closeProfit(bt, st.position, sellPrice)
        profitPercent ==
            RMul(RDiv(RSub(sellPrice, st.position.entryPrice), st.position.entryPrice),
                 Q(100))
    IN  [st EXCEPT !.balance = newBalance,
                   !.trades = Append(st.trades,
                       [type |-> "CLOSE", reason |-> reason,
                        entryPrice |-> st.position.entryPrice, exitPrice |-> sellPrice,
                        amount |-> st.position.amount, profit |-> profit,
                        profitPercent |-> profitPercent, balance |-> newBalance,
                        timestamp |-> timestamp])]

\* mutant: the position object survives the stop-loss / take-profit close
stopCheckKeepsPosition(bt, cfg, st, currentPrice, timestamp) ==
    IF st.position # NULL /\ checkPosition(cfg, st.strategyPosition, currentPrice).shouldClose
    THEN closeTrade(bt, st, applySlippage(bt, currentPrice, "sell"),
                    checkPosition(cfg, st.strategyPosition, currentPrice).reason,
                    timestamp)
    ELSE st

\* stop-loss / take-profit of the open position, before the step's signal
stopCheck(bt, cfg, st, currentPrice, timestamp) ==
    IF st.position # NULL /\ checkPosition(cfg, st.strategyPosition, currentPrice).shouldClose
    THEN [closeTrade(bt, st, applySlippage(bt, currentPrice, "sell"),
                     checkPosition(cfg, st.strategyPosition, currentPrice).reason,
                     timestamp)
            EXCEPT !.position = NULL, !.strategyPosition = NULL]
    ELSE st

MIN_INVEST == 5000

\* mutant: the 95% cap is missing
investAmountOfUncapped(cfg, bal) ==
    IF cfg.investmentAmount # UNDEFINED /\ cfg.investmentAmount.n # 0
    THEN cfg.investmentAmount ELSE RMul(bal, Frac(1, 10))

investAmountOf(cfg, bal) ==
    RMin(IF cfg.investmentAmount # UNDEFINED /\ cfg.investmentAmount.n # 0
         THEN cfg.investmentAmount ELSE RMul(bal, Frac(1, 10)),
         RMul(bal, Frac(95, 100)))

buySignal(bt, cfg, st, decision, currentPrice, timestamp) ==
    IF decision.action = "BUY" /\ st.position = NULL /\ RLt(Q(0), st.balance)
    THEN LET investAmount == investAmountOf(cfg, st.balance)
         IN  IF RLe(Q(MIN_INVEST), investAmount)
             THEN LET buyPrice == applySlippage(bt, currentPrice, "buy")
                      fee == RMul(investAmount, bt.tradingFee)
                      amount == RDiv(RSub(investAmount, fee), buyPrice)
                      newBalance == RSub(st.balance, investAmount)
                      pos == [entryPrice |-> buyPrice, amount |-> amount,
                              entryTime |-> timestamp]
                  IN  [balance |-> newBalance, position |-> pos,
                       strategyPosition |-> pos,
                       trades |-> Append(st.trades,
                           [type |-> "OPEN", entryPrice |-> buyPrice, amount |-> amount,
                            investAmount |-> investAmount, balance |-> newBalance,
                            reason |-> decision.reason, timestamp |-> timestamp])]
             ELSE st
    ELSE st

sellSignal(bt, st, decision, currentPrice, timestamp) ==
    IF decision.action = "SELL" /\ st.position # NULL
    THEN [closeTrade(bt, st, applySlippage(bt, currentPrice, "sell"), decision.reason,
                     timestamp)
            EXCEPT !.position = NULL, !.strategyPosition = NULL]
    ELSE st

\* the equity sample pushed at the end of an iteration
equitySample(st, currentPrice, timestamp) ==
    [timestamp |-> timestamp,
     balance |-> RAdd(st.balance, IF st.position # NULL
                                  THEN RMul(st.position.amount, currentPrice) ELSE Q(0)),
     price |-> currentPrice]

\* mutant: the end-of-data close sells at the slippage-adjusted price
finalCloseSlipped(bt, st, lastCandlePrice, timestamp) ==
    IF st.position # NULL
    THEN closeTrade(bt, st, applySlippage(bt, lastCandlePrice, "sell"),
                    "END_OF_BACKTEST", timestamp)
    ELSE st

\* mutant: a position still open at the end of the data is left open
finalCloseSkipped(bt, st, lastCandlePrice, timestamp) == st

\* the close of a position still open after the last candle
finalClose(bt, st, lastCandlePrice, timestamp) ==
    IF st.position # NULL
    THEN closeTrade(bt, st, lastCandlePrice, "END_OF_BACKTEST", timestamp)
    ELSE st

RECURSIVE maxDrawdownFrom(_, _, _, _)
\* mutant: the fall from the peak is not divided by the peak
drawdownAtAbsolute(peak, bal) == RSub(peak, bal)

\* the drawdown of one equity sample, in percent of the running peak
drawdownAt(peak, bal) == RMul(RDiv(RSub(peak, bal), peak), Q(100))

\* the loop of calculateMaxDrawdown from sample i on
maxDrawdownFrom(hist, i, peak, maxDrawdown) ==
    IF i > Len(hist) THEN maxDrawdown
    ELSE LET newPeak == IF RLt(peak, hist[i].balance) THEN hist[i].balance ELSE peak
             drawdown == drawdownAt(newPeak, hist[i].balance)
         IN  maxDrawdownFrom(hist, i + 1, newPeak,
                             IF RLt(maxDrawdown, drawdown) THEN drawdown ELSE maxDrawdown)

calculateMaxDrawdown(hist) == maxDrawdownFrom(hist, 1, hist[1].balance, Q(0))

RECURSIVE reduceBest(_, _, _)
\* trades.reduce of findBestTrade: a falsy best.profit (0) compares as -Infinity
reduceBest(closed, i, best) ==
    IF i > Len(closed) THEN best
    ELSE LET bar == IF best.profit.n = 0 THEN [n |-> -1, d |-> 0] ELSE best.profit
         IN  reduceBest(closed, i + 1, IF RLt(bar, closed[i].profit) THEN closed[i] ELSE best)

findBestTrade(closed) == IF closed = <<>> THEN NULL ELSE reduceBest(closed, 2, closed[1])

RECURSIVE reduceWorst(_, _, _)
\* trades.reduce of findWorstTrade: a falsy worst.profit (0) compares as Infinity
reduceWorst(closed, i, worst) ==
    IF i > Len(closed) THEN worst
    ELSE LET bar == IF worst.profit.n = 0 THEN [n |-> 1, d |-> 0] ELSE worst.profit
         IN  reduceWorst(closed, i + 1, IF RLt(closed[i].profit, bar) THEN closed[i] ELSE worst)

findWorstTrade(closed) == IF closed = <<>> THEN NULL ELSE reduceWorst(closed, 2, closed[1])

IsClose(t) == t.type = "CLOSE"

IsWin(t) == RLt(Q(0), t.profit)

IsLoss(t) == RLe(t.profit, Q(0))

RECURSIVE sumProfits(_)
sumProfits(ts) == IF ts = <<>> THEN Q(0) ELSE RAdd(Head(ts).profit, sumProfits(Tail(ts)))

\* calculateResults; sharpeRatio is a square root and is carried only by the
\* zero-filled result, where it is the literal 0
calculateResults(bt, cfg, allTrades, finalBalance, hist) ==
    LET closedTrades == SelectSeq(allTrades, IsClose)
    IN  IF Len(closedTrades) = 0
        THEN [config |-> cfg, initialBalance |-> bt.initialBalance,
              finalBalance |-> finalBalance, totalReturn |-> Q(0),
              totalReturnPercent |-> Q(0), totalTrades |-> 0, winningTrades |-> 0,
              losingTrades |-> 0, winRate |-> Q(0), avgProfit |-> Q(0), avgWin |-> Q(0),
              avgLoss |-> Q(0), maxDrawdown |-> Q(0), sharpeRatio |-> Q(0),
              profitFactor |-> Q(0), balanceHistory |-> hist]
        ELSE LET totalReturn == RSub(finalBalance, bt.initialBalance)
                 winning == SelectSeq(closedTrades, IsWin)
                 losing == SelectSeq(closedTrades, IsLoss)
                 totalProfit == sumProfits(closedTrades)
                 totalWin == sumProfits(winning)
                 totalLoss == LET l == sumProfits(losing) IN IF l.n < 0 THEN RNeg(l) ELSE l
             IN  [config |-> cfg, initialBalance |-> bt.initialBalance,
                  finalBalance |-> finalBalance, totalReturn |-> totalReturn,
                  totalReturnPercent |->
                      RMul(RDiv(totalReturn, bt.initialBalance), Q(100)),
                  totalTrades |-> Len(closedTrades), winningTrades |-> Len(winning),
                  losingTrades |-> Len(losing),
                  winRate |-> RMul(Frac(Len(winning), Len(closedTrades)), Q(100)),
                  avgProfit |-> RDiv(totalProfit, Q(Len(closedTrades))),
                  avgWin |-> IF Len(winning) > 0 THEN RDiv(totalWin, Q(Len(winning)))
                             ELSE Q(0),
                  avgLoss |-> IF Len(losing) > 0 THEN RDiv(totalLoss, Q(Len(losing)))
                              ELSE Q(0),
                  maxDrawdown |-> calculateMaxDrawdown(hist),
                  profitFactor |-> IF RLt(Q(0), totalLoss) THEN RDiv(totalWin, totalLoss)
                                   ELSE IF RLt(Q(0), totalWin) THEN [n |-> 1, d |-> 0]
                                   ELSE Q(0),
                  bestTrade |-> findBestTrade(closedTrades),
                  worstTrade |-> findWorstTrade(closedTrades),
                  balanceHistory |-> hist, trades |-> closedTrades]

(***************************************************************************)
(* Inputs of a backtest run                                                *)
(***************************************************************************)
\* candles evaluated after the 200-candle look-back
MaxSteps == 3

\* calls of run() on one BacktestEngine
MaxRuns == 2

\* the look-back of run(): the loop starts at candle 200
minCandles == 200

\* engine configuration, sizing and RSI period of a run.  Money is exact, so the
\* rates are round ones: the defaults 0.0005 and 0.001 do not fit the integer
\* width.  An rsiPeriod of 0 is falsy and stands for a strategyConfig without one.
BacktestRuns ==
    {[initialBalance |-> Q(60000), tradingFee |-> Q(0), slippage |-> Q(0),
      investmentAmount |-> UNDEFINED, rsiPeriod |-> 0],
     [initialBalance |-> Q(10000), tradingFee |-> Frac(1, 100), slippage |-> Frac(1, 100),
      investmentAmount |-> Q(5000), rsiPeriod |-> 0],
     [initialBalance |-> Q(10000), tradingFee |-> Q(0), slippage |-> Frac(1, 100),
      investmentAmount |-> Q(5000), rsiPeriod |-> 0],
     [initialBalance |-> Q(10000), tradingFee |-> Frac(1, 100), slippage |-> Q(0),
      investmentAmount |-> UNDEFINED, rsiPeriod |-> 0],
     [initialBalance |-> Q(6000), tradingFee |-> Q(0), slippage |-> Q(0),
      investmentAmount |-> Q(8000), rsiPeriod |-> 0],
     [initialBalance |-> Q(10000), tradingFee |-> Q(0), slippage |-> Q(0),
      investmentAmount |-> Q(5000), rsiPeriod |-> 199],
     [initialBalance |-> Q(10000), tradingFee |-> Q(0), slippage |-> Q(0),
      investmentAmount |-> Q(5000), rsiPeriod |-> 200]}

CandlePrices == {Q(90), Q(100), Q(120)}

\* what comprehensiveAnalysis makes of the 200 candles before a step
StepAnalyses ==
    LifecycleAnalyses \cup
    {technicalAnalysisOf(ind, Q(30), Q(70)) :
        ind \in {i \in IndicatorValues :
                    /\ i.bbLower = 9500 /\ ~i.isHighVolume /\ i.macdHistogram = 200
                    /\ i.rsi = 4200 /\ i.crossover = "none"}}

(***************************************************************************)
(* BacktestEngine.run as a state machine: one action per loop iteration    *)
(***************************************************************************)
InitBacktest ==
    \E r \in BacktestRuns, c \in LifecycleConfigs :
        /\ btConfig = BacktestEngine([initialBalance |-> r.initialBalance,
                                      tradingFee |-> r.tradingFee,
                                      slippage |-> r.slippage])
        /\ config = TradingStrategy(c @@ [investmentAmount |-> r.investmentAmount,
                                          rsiPeriod |-> r.rsiPeriod])
        /\ currentPosition = NULL
        /\ tradeHistory = <<>>
        /\ lastCall = [op |-> "run"]
        /\ ret = UNDEFINED
        /\ pc = "loop"
        /\ balance = r.initialBalance
        /\ position = NULL
        /\ trades = <<>>
        /\ balanceHistory = <<>>
        /\ candleIndex = 0
        /\ lastPrice = NULL
        /\ result = NULL
        /\ instance = newInstance
        /\ IdleOptimizer

\* historicalData.slice(i - minCandles, i).reverse(): always minCandles candles;
\* whether the analysis is null depends on their number only
currentCandles == [c \in 1..minCandles |-> Q(100)]

\* mutant: the whole strategyConfig is handed to comprehensiveAnalysis
analysisConfigOfWhole(strategyConfig) == strategyConfig

\* the config run() hands to comprehensiveAnalysis: a falsy strategyConfig value
\* is replaced (||), the remaining keys are left to the callee's defaults
analysisConfigOf(strategyConfig) ==
    [rsiPeriod |-> IF "rsiPeriod" \in DOMAIN strategyConfig /\ strategyConfig.rsiPeriod # 0
                   THEN strategyConfig.rsiPeriod ELSE 14,
     rsiOversold |-> IF "rsiOversold" \in DOMAIN strategyConfig
                        /\ strategyConfig.rsiOversold # 0
                     THEN strategyConfig.rsiOversold ELSE 30,
     rsiOverbought |-> IF "rsiOverbought" \in DOMAIN strategyConfig
                          /\ strategyConfig.rsiOverbought # 0
                       THEN strategyConfig.rsiOverbought ELSE 70]

\* !technicalAnalysis
technicalAnalysisIsNull ==
    comprehensiveAnalysisIsNull(currentCandles, analysisConfigOf(config))

\* a later run on the same engine is followed over one candle
StepLimit == IF instance.results = <<>> THEN MaxSteps ELSE 1

SimState ==
    [balance |-> balance, position |-> position, strategyPosition |-> currentPosition,
     trades |-> trades]

\* an iteration whose comprehensiveAnalysis returned null: continue
BacktestSkip ==
    \E price \in CandlePrices :
        /\ pc = "loop"
        /\ candleIndex < StepLimit
        /\ technicalAnalysisIsNull
        /\ candleIndex' = candleIndex + 1
        /\ lastPrice' = price
        /\ lastCall' = [op |-> "skip", currentPrice |-> price]
        /\ UNCHANGED <<config, currentPosition, tradeHistory, ret, btConfig, pc, balance,
                       position, trades, balanceHistory, result, instance>>
        /\ UNCHANGED optimizerVars

\* an iteration with an analysis: decision, stop check (s1), BUY (s2), SELL (st),
\* equity sample
BacktestStep ==
    \E price \in CandlePrices, ta \in StepAnalyses :
    \E decision \in {makeDecision(config, currentPosition, ta, mockNewsSentiment, price)} :
    \E s1 \in {stopCheck(btConfig, config, SimState, price, candleIndex + 1)} :
    \E s2 \in {buySignal(btConfig, config, s1, decision, price, candleIndex + 1)} :
    \E st \in {sellSignal(btConfig, s2, decision, price, candleIndex + 1)} :
        /\ pc = "loop"
        /\ candleIndex < StepLimit
        /\ ~technicalAnalysisIsNull
        /\ candleIndex' = candleIndex + 1
        /\ lastPrice' = price
        /\ balance' = st.balance
        /\ position' = st.position
        /\ currentPosition' = st.strategyPosition
        /\ trades' = st.trades
        /\ balanceHistory' =
               Append(balanceHistory, equitySample(st, price, candleIndex + 1))
        /\ ret' = decision
        /\ lastCall' = [op |-> "step", technicalAnalysis |-> ta,
                        currentPrice |-> price, position |-> position]
        /\ UNCHANGED <<config, tradeHistory, btConfig, pc, result, instance>>
        /\ UNCHANGED optimizerVars

\* the data ends: close what is open, compute the result, return it
BacktestFinish ==
    LET st == finalClose(btConfig, SimState, lastPrice, candleIndex)
    IN  /\ pc = "loop"
        /\ pc' = "done"
        /\ balance' = st.balance
        /\ trades' = st.trades
        /\ result' = calculateResults(btConfig, config, st.trades, st.balance,
                                      balanceHistory)
        /\ instance' = instanceAfterRun(instance, result', st.trades)
        /\ lastCall' = [op |-> "finish"]
        /\ UNCHANGED <<config, currentPosition, tradeHistory, ret, btConfig, position,
                       balanceHistory, candleIndex, lastPrice>>
        /\ UNCHANGED optimizerVars

\* mutant: the balance of the previous run on this engine is carried over
balanceCarried(bt, this) ==
    IF this.results = <<>> THEN bt.initialBalance
    ELSE this.results[Len(this.results)].finalBalance

\* let balance = this.config.initialBalance
balanceAtStart(bt, this) == bt.initialBalance

\* run() called again on the same engine with the same strategyConfig: a new
\* TradingStrategy and new locals; this.results and this.trades keep what the
\* earlier run left.  Followed after one-candle runs that traded.
BacktestAgain ==
    /\ pc = "done"
    /\ Len(instance.results) < MaxRuns
    /\ result.totalTrades > 0
    /\ candleIndex = 1
    /\ pc' = "loop"
    /\ currentPosition' = NULL
    /\ tradeHistory' = <<>>
    /\ balance' = balanceAtStart(btConfig, instance)
    /\ position' = NULL
    /\ trades' = <<>>
    /\ balanceHistory' = <<>>
    /\ candleIndex' = 0
    /\ lastPrice' = NULL
    /\ result' = NULL
    /\ ret' = UNDEFINED
    /\ lastCall' = [op |-> "run"]
    /\ UNCHANGED <<config, btConfig, instance>>
    /\ UNCHANGED optimizerVars

\* the loop variable i of run(): the index of the next candle to evaluate
LoopIndex == minCandles + candleIndex

NextBacktest ==
    \/ BacktestSkip
    \/ BacktestStep
    \/ BacktestFinish
    \/ BacktestAgain

SpecBacktest == InitBacktest /\ [][NextBacktest]_vars

(***************************************************************************)
(* calculateResults on the trade log of a finished run: more round trips   *)
(* than MaxSteps candles can hold                                          *)
(***************************************************************************)
MaxTrades == 4

\* profit of one round trip of one unit bought at 100
TradeProfits == {-5, 0, 5}

ProfitLists == UNION {[1..n -> TradeProfits] : n \in 1..MaxTrades}

RECURSIVE balanceAfter(_, _, _)
\* the balance once the first i round trips are closed (no fee, no slippage)
balanceAfter(bt, profits, i) ==
    IF i = 0 THEN bt.initialBalance
    ELSE RAdd(balanceAfter(bt, profits, i - 1), Q(profits[i]))

\* the CLOSE trades run() has pushed after those round trips
closedTradesOf(bt, profits) ==
    [i \in 1..Len(profits) |->
        [type |-> "CLOSE", reason |-> "SELL", entryPrice |-> Q(100),
         exitPrice |-> Q(100 + profits[i]), amount |-> Q(1),
         profit |-> closeProfit(bt, [entryPrice |-> Q(100), amount |-> Q(1)],
                                Q(100 + profits[i])),
         profitPercent |-> Q(profits[i]),
         balance |-> balanceAfter(bt, profits, i), timestamp |-> 2 * i]]

\* one equity sample per candle: position held, then sold
balanceHistoryOf(bt, profits) ==
    [j \in 1..(2 * Len(profits)) |->
        [timestamp |-> j, balance |-> balanceAfter(bt, profits, j \div 2),
         price |-> IF j % 2 = 1 THEN Q(100) ELSE Q(100 + profits[j \div 2])]]

InitResults ==
    \E profits \in ProfitLists :
        /\ btConfig = BacktestEngine([initialBalance |-> Q(10000), tradingFee |-> Q(0),
                                      slippage |-> Q(0)])
        /\ config = TradingStrategy([investmentAmount |-> Q(5000), rsiPeriod |-> 0])
        /\ currentPosition = NULL
        /\ tradeHistory = <<>>
        /\ lastCall = [op |-> "run"]
        /\ ret = UNDEFINED
        /\ pc = "results"
        /\ balance = balanceAfter(btConfig, profits, Len(profits))
        /\ position = NULL
        /\ trades = closedTradesOf(btConfig, profits)
        /\ balanceHistory = balanceHistoryOf(btConfig, profits)
        /\ candleIndex = 2 * Len(profits)
        /\ lastPrice = Q(100 + profits[Len(profits)])
        /\ result = NULL
        /\ instance = newInstance
        /\ IdleOptimizer

\* the last lines of run(): calculateResults, this.results.push, this.trades
CalculateResults ==
    /\ pc = "results"
    /\ pc' = "done"
    /\ result' = calculateResults(btConfig, config, trades, balance, balanceHistory)
    /\ instance' = instanceAfterRun(instance, result', trades)
    /\ lastCall' = [op |-> "calculateResults"]
    /\ UNCHANGED <<config, currentPosition, tradeHistory, ret, btConfig, balance,
                   position, trades, balanceHistory, candleIndex, lastPrice>>
    /\ UNCHANGED optimizerVars

NextResults == CalculateResults

SpecResults == InitResults /\ [][NextResults]_vars

(***************************************************************************)
(* Properties of a backtest run (checked under SpecBacktest)               *)
(***************************************************************************)
BacktestDone == pc = "done"

\* the closed trades of the returned result (the zero-filled result has none)
ResultProfits ==
    IF result.totalTrades = 0 THEN Q(0) ELSE sumProfits(result.trades)

\* C9: finalBalance = initialBalance + the sum of the profit fields of the
\* closed trades of the result
C9_Reconciles ==
    BacktestDone =>
        result.finalBalance =
            RAdd(result.initialBalance, ResultProfits)

\* a finished run with a trading fee and a closed trade
C9_FeeRun ==
    /\ BacktestDone
    /\ btConfig.tradingFee # Q(0)
    /\ result.totalTrades > 0

\* without a trading fee the profits do reconcile with the balance
C9_FeeFreeReconciles ==
    (BacktestDone /\ btConfig.tradingFee = Q(0)) =>
        result.finalBalance =
            RAdd(result.initialBalance, ResultProfits)

RECURSIVE NonDecreasingFrom(_, _)
NonDecreasingFrom(hist, i) ==
    i >= Len(hist) \/
        (RLe(hist[i].balance, hist[i + 1].balance) /\ NonDecreasingFrom(hist, i + 1))

NonDecreasing(hist) == NonDecreasingFrom(hist, 1)

\* C10: the reported maxDrawdown is within [0, 100], and it is 0 when the
\* equity samples of balanceHistory never decrease
C10_DrawdownRange ==
    BacktestDone =>
        /\ RLe(Q(0), result.maxDrawdown)
        /\ RLe(result.maxDrawdown, Q(100))
        /\ NonDecreasing(result.balanceHistory) => result.maxDrawdown = Q(0)

\* a finished run with closed trades whose equity rose and never fell
C10_Witness ==
    /\ BacktestDone
    /\ result.totalTrades > 0
    /\ Len(result.balanceHistory) >= 2
    /\ NonDecreasing(result.balanceHistory)
    /\ RLt(result.balanceHistory[1].balance,
           result.balanceHistory[Len(result.balanceHistory)].balance)
    /\ result.maxDrawdown = Q(0)

\* a finished run whose equity fell from its peak
C10_DrawdownSeen ==
    /\ BacktestDone
    /\ result.totalTrades > 0
    /\ RLt(Q(0), result.maxDrawdown)

\* the trade log is OPEN, CLOSE, OPEN, CLOSE, ...: every OPEN has its CLOSE
TradesPaired(log) ==
    /\ Len(log) % 2 = 0
    /\ \A i \in 1..Len(log) :
          log[i].type = (IF i % 2 = 1 THEN "OPEN" ELSE "CLOSE")

\* C11: when run() returns every OPEN record is followed by exactly one CLOSE
\* record; a position still open after the last step is closed at the last
\* candle's trade price with the end-of-backtest reason and its proceeds less the
\* fee are added to the balance; with no open position the end changes nothing.
C11_ClosedAtEnd ==
    /\ [](BacktestDone => TradesPaired(trades))
    /\ [][ (pc = "loop" /\ pc' = "done") =>
             IF position # NULL
             THEN LET proceeds == RMul(position.amount, lastPrice)
                      r == trades'[Len(trades')]
                  IN  /\ trades' = Append(trades, r)
                      /\ r.type = "CLOSE"
                      /\ r.reason = "END_OF_BACKTEST"
                      /\ r.exitPrice = lastPrice
                      /\ r.entryPrice = position.entryPrice
                      /\ r.amount = position.amount
                      /\ balance' = RAdd(balance,
                                         RSub(proceeds, RMul(proceeds, btConfig.tradingFee)))
                      /\ r.balance = balance'
             ELSE trades' = trades /\ balance' = balance ]_vars

\* a run that ended with a position open, under slippage and a fee
C11_Witness ==
    /\ BacktestDone
    /\ position # NULL
    /\ btConfig.slippage # Q(0)
    /\ btConfig.tradingFee # Q(0)
    /\ trades[Len(trades)].reason = "END_OF_BACKTEST"
    /\ Len(trades) = 4

\* what the BUY branch invests: min(investmentAmount or 10% of balance, 95%)
C12_InvestAmount ==
    LET wanted == IF config.investmentAmount # UNDEFINED /\ config.investmentAmount # Q(0)
                  THEN config.investmentAmount ELSE RDiv(balance, Q(10))
        cap == RDiv(RMul(balance, Q(95)), Q(100))
    IN  IF RLt(cap, wanted) THEN cap ELSE wanted

\* C12: a step opens a position only if the decision is BUY, no position is open
\* and balance > 0; the invested amount is min(investmentAmount or 10% of
\* balance, 95% of balance); nothing is opened when that is below 5000; the entry
\* price is price*(1+slippage), the amount (invested - invested*fee)/entryPrice,
\* and the balance decreases by exactly the invested amount.
C12_BuyBranch ==
    [][ lastCall'.op = "step" =>
          LET price == lastCall'.currentPrice
              wantsBuy == /\ ret'.action = "BUY" /\ position = NULL
                          /\ RLt(Q(0), balance)
              opened == /\ Len(trades') > Len(trades)
                        /\ trades'[Len(trades')].type = "OPEN"
              entry == RMul(price, RAdd(Q(1), btConfig.slippage))
          IN  /\ opened <=> (wantsBuy /\ RLe(Q(5000), C12_InvestAmount))
              /\ opened =>
                   /\ trades' = Append(trades, trades'[Len(trades')])
                   /\ trades'[Len(trades')].investAmount = C12_InvestAmount
                   /\ position'.entryPrice = entry
                   /\ position'.amount =
                         RDiv(RSub(C12_InvestAmount,
                                   RMul(C12_InvestAmount, btConfig.tradingFee)), entry)
                   /\ balance' = RSub(balance, C12_InvestAmount)
                   /\ currentPosition' = position' ]_vars

\* a BUY sized by the 95% cap, and a BUY refused below the minimum
C12_Witness ==
    /\ lastCall.op = "step"
    /\ position # NULL /\ lastCall.position = NULL
    /\ trades[Len(trades)].type = "OPEN"
    /\ trades[Len(trades)].investAmount = Q(5700)
    /\ config.investmentAmount = Q(8000)

\* a BUY decision with no position that opened nothing (size below 5000)
C12_RefusedSeen ==
    /\ lastCall.op = "step"
    /\ ret.action = "BUY"
    /\ lastCall.position = NULL
    /\ position = NULL

\* C13: at a step where a position is open and its stop-loss or take-profit
\* triggers, the position is closed once: exactly one record is appended, the
\* CLOSE at the slippage-adjusted sell price with the fee deducted and the
\* trigger as its reason; the step's decision opens or closes nothing further.
C13_StopFirst ==
    [][ ( /\ lastCall'.op = "step"
          /\ position # NULL
          /\ LET change == RMul(RDiv(RSub(lastCall'.currentPrice, position.entryPrice),
                                     position.entryPrice), Q(100))
             IN  \/ RLe(change, RNeg(config.stopLossPercent))
                 \/ RLe(config.takeProfitPercent, change) )
        => LET change == RMul(RDiv(RSub(lastCall'.currentPrice, position.entryPrice),
                                   position.entryPrice), Q(100))
               sellPrice == RMul(lastCall'.currentPrice, RSub(Q(1), btConfig.slippage))
               proceeds == RMul(position.amount, sellPrice)
               r == trades'[Len(trades')]
           IN  /\ trades' = Append(trades, r)
               /\ r.type = "CLOSE"
               /\ r.reason = (IF RLe(change, RNeg(config.stopLossPercent))
                              THEN "STOP_LOSS" ELSE "TAKE_PROFIT")
               /\ r.exitPrice = sellPrice
               /\ r.amount = position.amount
               /\ balance' = RAdd(balance,
                                  RSub(proceeds, RMul(proceeds, btConfig.tradingFee)))
               /\ position' = NULL
               /\ currentPosition' = NULL ]_vars

\* a take-profit close at a step whose analysis alone says BUY
C13_Witness ==
    /\ lastCall.op = "step"
    /\ lastCall.position # NULL
    /\ trades[Len(trades)].type = "CLOSE"
    /\ trades[Len(trades)].reason = "TAKE_PROFIT"
    /\ RLe(config.buyThreshold, ParseFloat(ret.scores.total))
    /\ btConfig.slippage # Q(0)
    /\ position = NULL

NoClosedTrade == \A i \in 1..Len(trades) : trades[i].type # "CLOSE"

\* C14: a run that produces no closed trade, any run that evaluates no step
\* (200 or fewer candles) included, returns a result whose counts, rates,
\* averages, totalReturn, maxDrawdown, sharpeRatio and profitFactor are all 0
\* and whose finalBalance is the initialBalance.
C14_ZeroResult ==
    /\ (BacktestDone /\ LoopIndex = minCandles) => NoClosedTrade
    /\ (BacktestDone /\ NoClosedTrade) =>
          /\ result.totalTrades = 0
          /\ result.winningTrades = 0
          /\ result.losingTrades = 0
          /\ result.winRate = Q(0)
          /\ result.avgProfit = Q(0)
          /\ result.avgWin = Q(0)
          /\ result.avgLoss = Q(0)
          /\ result.totalReturn = Q(0)
          /\ result.totalReturnPercent = Q(0)
          /\ result.maxDrawdown = Q(0)
          /\ result.sharpeRatio = Q(0)
          /\ result.profitFactor = Q(0)
          /\ result.finalBalance = result.initialBalance
          /\ result.initialBalance = btConfig.initialBalance

\* a run that evaluated steps, decided BUY, and still closed no trade
C14_Witness ==
    /\ BacktestDone
    /\ NoClosedTrade
    /\ Len(result.balanceHistory) >= 2
    /\ ret.action = "BUY"
    /\ result.totalTrades = 0

\* a run on 200 or fewer candles: no step was evaluated
C14_ShortDataSeen ==
    /\ BacktestDone
    /\ LoopIndex = minCandles
    /\ result.totalTrades = 0

\* C34: throughout a run with initialBalance > 0, positive prices and fee and
\* slippage in [0, 1), the cash balance is > 0 after every buy and every close
\* and every equity sample is > 0, so the divisors of the drawdown (the running
\* peak) and of the per-step returns (the previous sample) are never zero.
C34_PositiveEquity ==
    /\ RLt(Q(0), btConfig.initialBalance)
    /\ RLe(Q(0), btConfig.tradingFee) /\ RLt(btConfig.tradingFee, Q(1))
    /\ RLe(Q(0), btConfig.slippage) /\ RLt(btConfig.slippage, Q(1))
    /\ RLt(Q(0), balance)
    /\ \A i \in 1..Len(trades) : RLt(Q(0), trades[i].balance)
    /\ \A i \in 1..Len(balanceHistory) : RLt(Q(0), balanceHistory[i].balance)
    /\ position # NULL => RLt(Q(0), position.amount) /\ RLt(Q(0), position.entryPrice)

\* a finished run that bought at the 95% cap, leaving 5% in cash, and closed under
\* a lower price
C34_Witness ==
    /\ BacktestDone
    /\ btConfig.initialBalance = Q(6000)
    /\ Len(trades) >= 2
    /\ trades[1].type = "OPEN" /\ trades[1].balance = Q(300)
    /\ trades[2].type = "CLOSE" /\ RLt(trades[2].profit, Q(0))
    /\ \E i \in 1..Len(balanceHistory) :
          RLt(balanceHistory[i].balance, btConfig.initialBalance)

\* a close under a fee and slippage that left less than the run started with
C34_FeeSeen ==
    /\ BacktestDone
    /\ btConfig.tradingFee # Q(0) /\ btConfig.slippage # Q(0)
    /\ Len(trades) >= 2
    /\ RLt(balance, btConfig.initialBalance)

\* the log so far is OPEN, CLOSE, OPEN, ... and starts with OPEN
TradesAlternate(log) ==
    \A i \in 1..Len(log) : log[i].type = (IF i % 2 = 1 THEN "OPEN" ELSE "CLOSE")

\* C35: the trade log alternates OPEN, CLOSE, ... starting with OPEN; a processed
\* step appends at most one record (what it closes it does not re-open, what it
\* opens it does not close); at the end of every step the simulator's position
\* and the strategy's currentPosition are both null or the same position.
C35_OneRecordPerStep ==
    /\ [](TradesAlternate(trades))
    /\ [](position = currentPosition)
    /\ [](pc = "loop" => (position # NULL <=> Len(trades) % 2 = 1))
    /\ [][ lastCall'.op \in {"step", "skip"} =>
             /\ \/ trades' = trades
                \/ /\ Len(trades') = Len(trades) + 1
                   /\ trades' = Append(trades, trades'[Len(trades')])
             /\ position # NULL => position' \in {position, NULL}
             /\ (position = NULL /\ trades' # trades) =>
                   /\ position' # NULL
                   /\ trades'[Len(trades')].type = "OPEN" ]_vars

\* a step whose stop check closed the position while the scores alone say BUY:
\* nothing was re-opened
C35_Witness ==
    /\ lastCall.op = "step"
    /\ lastCall.position # NULL
    /\ position = NULL /\ currentPosition = NULL
    /\ Len(trades) = 2
    /\ ret.action = "SELL"
    /\ RLe(config.buyThreshold, ParseFloat(ret.scores.total))

\* a step that opened a position and left it open, known to both sides
C35_OpenedSeen ==
    /\ lastCall.op = "step"
    /\ lastCall.position = NULL
    /\ position # NULL /\ currentPosition = position
    /\ Len(trades) = 3

\* the sentence's condition: the window is shorter than a sub-indicator's minimum
WindowTooShort(candles, cfg) ==
    \/ Len(candles) < cfg.rsiPeriod + 1
    \/ Len(candles) < cfg.macdSlow + cfg.macdSignal
    \/ Len(candles) < cfg.bbPeriod

\* an iteration of the loop of run()
Iteration == candleIndex' = candleIndex + 1

\* C15: comprehensiveAnalysis returns null exactly when the window is shorter
\* than rsiPeriod+1, macdSlow+macdSignal or bbPeriod candles (for every window of
\* up to MaxWindow candles and every enumerated config), and an iteration of the
\* simulator whose analysis is null makes no decision, no trade and no equity
\* sample, while every other iteration makes a decision and takes a sample.
C15_NullSkips ==
    /\ \A call \in AnalysisCalls :
           comprehensiveAnalysisIsNull(call.candles, call.config)
               <=> WindowTooShort(call.candles, AnalysisConfig(call.config))
    /\ [][Iteration =>
            LET short == WindowTooShort(currentCandles,
                                        AnalysisConfig(analysisConfigOf(config)))
            IN  /\ short <=> lastCall'.op = "skip"
                /\ short => UNCHANGED <<ret, trades, balanceHistory, balance, position,
                                        currentPosition, tradeHistory>>
                /\ ~short => /\ ret' \in {makeDecision(config, currentPosition,
                                              lastCall'.technicalAnalysis,
                                              mockNewsSentiment, lastCall'.currentPrice)}
                             /\ Len(balanceHistory') = Len(balanceHistory) + 1]_vars

\* two candles skipped in a run whose RSI period needs 201 candles
C15_Witness ==
    /\ pc = "loop"
    /\ lastCall.op = "skip"
    /\ candleIndex = 2
    /\ config.rsiPeriod = 200
    /\ ret = UNDEFINED
    /\ trades = <<>>
    /\ balanceHistory = <<>>

\* an RSI period of 199 needs exactly the 200 candles of the window: no skip
C15_FullWindowSeen ==
    /\ lastCall.op = "step"
    /\ config.rsiPeriod = 199
    /\ Len(balanceHistory) = candleIndex

\* C30: in every result with at least one closed trade, bestTrade is a closed
\* trade whose profit is >= the profit of every closed trade and worstTrade is a
\* closed trade whose profit is <= the profit of every closed trade, trades with
\* profit exactly 0 included.
C30_BestWorst ==
    (BacktestDone /\ result.totalTrades > 0) =>
        /\ \E i \in 1..Len(result.trades) : result.trades[i] = result.bestTrade
        /\ \E i \in 1..Len(result.trades) : result.trades[i] = result.worstTrade
        /\ \A i \in 1..Len(result.trades) :
              /\ RLe(result.trades[i].profit, result.bestTrade.profit)
              /\ RLe(result.worstTrade.profit, result.trades[i].profit)

\* a run whose first closed trade made exactly 0 and a later one lost
C30_ZeroThenLossSeen ==
    /\ BacktestDone
    /\ result.totalTrades = 2
    /\ result.trades[1].profit = Q(0)
    /\ RLt(result.trades[2].profit, Q(0))
    /\ result.bestTrade = result.trades[2]

\* a run whose first closed trade made exactly 0 and a later one won
C30_ZeroThenWinSeen ==
    /\ BacktestDone
    /\ result.totalTrades = 2
    /\ result.trades[1].profit = Q(0)
    /\ RLt(Q(0), result.trades[2].profit)
    /\ result.worstTrade = result.trades[2]

\* the locals of run() as its first lines leave them
FreshState(bt) ==
    [balance |-> bt.initialBalance, position |-> NULL, strategyPosition |-> NULL,
     trades |-> <<>>]

RunStarts == pc = "loop" /\ candleIndex = 0

\* the result of a run over one candle (price, analysis) on a new engine with
\* configuration bt, given strategyConfig cfg
IsFreshOneCandleResult(r, bt, cfg, price, ta) ==
    \E decision \in {makeDecision(cfg, NULL, ta, mockNewsSentiment, price)} :
    \E s1 \in {stopCheck(bt, cfg, FreshState(bt), price, 1)} :
    \E s2 \in {buySignal(bt, cfg, s1, decision, price, 1)} :
    \E st \in {sellSignal(bt, s2, decision, price, 1)} :
    \E fin \in {finalClose(bt, st, price, 1)} :
        r = calculateResults(bt, cfg, fin.trades, fin.balance,
                             <<equitySample(st, price, 1)>>)

\* C26: the result of run depends only on its arguments and the engine's
\* configuration, never on earlier runs on the same engine: every run starts
\* from the configured initial balance, no position, an empty trade log, an
\* empty balance history and a new Decision Engine; no run changes the
\* configuration; and a run over one candle returns what a new engine returns
\* for that candle, whatever this.results and this.trades hold.
C26_RunsIndependent ==
    /\ [](RunStarts =>
            /\ balance = btConfig.initialBalance
            /\ position = NULL
            /\ trades = <<>>
            /\ balanceHistory = <<>>
            /\ currentPosition = NULL
            /\ tradeHistory = <<>>)
    /\ [][ /\ btConfig' = btConfig
           /\ (lastCall.op = "step" /\ candleIndex = 1 /\ lastCall'.op = "finish") =>
                 IsFreshOneCandleResult(result', btConfig, config,
                                        lastCall.currentPrice,
                                        lastCall.technicalAnalysis) ]_vars

\* a second run on an engine whose first run traded and ended off its initial
\* balance has returned, after trading itself
C26_Witness ==
    /\ BacktestDone
    /\ Len(instance.results) = 2
    /\ instance.results[1].totalTrades > 0
    /\ instance.results[1].finalBalance # btConfig.initialBalance
    /\ instance.results[2] = result
    /\ result.totalTrades > 0

(***************************************************************************)
(* Properties of the indicators (checked under SpecIndicators)             *)
(***************************************************************************)
RsiReturned ==
    /\ lastCall.op = "returned"
    /\ lastCall.fn = "calculateRSI"
    /\ Len(lastCall.candles) >= lastCall.period + 1

AllNonNegative(trace) == \A i \in 1..Len(trace) : trace[i].n >= 0 /\ trace[i].d > 0

\* C16: on at least period+1 non-negative prices calculateRSI returns a value in
\* [0,100]; the average loss stays >= 0 through every smoothing step, and so does
\* the average gain (followed step by step on the enumerated series); the result
\* is 100 when the average loss is 0.
C16_RsiRange ==
    RsiReturned =>
        LET prices == Reverse(lastCall.candles)
            lossTrace == averages(prices, lastCall.period, "loss")
        IN  /\ RLe(Q(0), ret) /\ RLe(ret, Q(100))
            /\ AllNonNegative(lossTrace)
            /\ Len(lastCall.candles) <= MaxCandles =>
                  AllNonNegative(averages(prices, lastCall.period, "gain"))
            /\ lossTrace[Len(lossTrace)] = Q(0) => ret = Q(100)

\* gains and losses smoothed over two steps, RSI strictly inside (0, 100)
C16_Witness ==
    /\ RsiReturned
    /\ Len(lastCall.candles) >= lastCall.period + 3
    /\ RLt(Q(0), ret) /\ RLt(ret, Q(100))
    /\ ret # Q(50)

\* a series that only rises: average loss 0, RSI 100
C16_ZeroLossSeen ==
    /\ RsiReturned
    /\ lastCall.candles = <<Q(3), Q(1), Q(1), Q(0)>>
    /\ ret = Q(100)

\* C17 as stated: RSI(14) on the flat part reads near 50 (within 10 of it), and
\* RSI(14) after the spike is absorbed reads above 70.
C17_Original ==
    (lastCall.op = "returned" /\ lastCall.fn = "calculateRSI") =>
        /\ lastCall.candles \in FlatWindows => (RLe(Q(40), ret) /\ RLe(ret, Q(60)))
        /\ lastCall.candles \in AbsorbedWindows => RLt(Q(70), ret)

\* C17 amended: RSI(14) on the flat part reads 100, because the average loss is
\* zero, and RSI(14) after the spike is absorbed reads 100 as well, above 70.
C17_FlatReads100 ==
    (lastCall.op = "returned" /\ lastCall.fn = "calculateRSI") =>
        /\ lastCall.candles \in FlatWindows => ret = Q(100)
        /\ lastCall.candles \in AbsorbedWindows => (ret = Q(100) /\ RLt(Q(70), ret))

\* RSI(14) computed on the 200 flat candles
C17_Witness ==
    /\ lastCall.op = "returned"
    /\ lastCall.fn = "calculateRSI"
    /\ lastCall.period = 14
    /\ lastCall.candles = Window(FlatThenSpike, 1, 200)
    /\ ret = Q(100)

\* RSI(14) computed on all 220 candles
C17_AbsorbedSeen ==
    /\ lastCall.op = "returned"
    /\ lastCall.fn = "calculateRSI"
    /\ lastCall.candles = Window(FlatThenSpike, 1, 220)
    /\ ret = Q(100)

(***************************************************************************)
(* Genetic optimizer: ParameterOptimizer                                   *)
(***************************************************************************)
\* constructor defaults of ParameterOptimizer; a key the caller provides wins
DefaultOptimizerConfig ==
    [populationSize |-> 20, generations |-> 10, mutationRate |-> Frac(2, 10),
     crossoverRate |-> Frac(7, 10), eliteSize |-> 2]

ParameterOptimizer(cfg) ==
    [k \in (DOMAIN DefaultOptimizerConfig) \cup (DOMAIN cfg) |->
        IF k \in DOMAIN cfg THEN cfg[k] ELSE DefaultOptimizerConfig[k]]

\* this.parameterRanges as optimize() is followed with it: the first two of the
\* 19 ordered ranges (rsiPeriod, rsiOversold), each cut to its two lowest grid
\* points
OptimizedRanges ==
    <<[min |-> 5, max |-> 6, step |-> 1], [min |-> 15, max |-> 16, step |-> 1]>>

\* Object.keys(this.parameterRanges), by position
params == 1..Len(parameterRanges)

\* for (let val = range.min; val <= range.max; val += range.step)
possibleValues(range) ==
    {range.min + k * range.step : k \in 0..((range.max - range.min) \div range.step)}

\* every parameter vector on the grid
Individuals == {ind \in [params -> UNION {possibleValues(parameterRanges[p]) : p \in params}] :
                   \A p \in params : ind[p] \in possibleValues(parameterRanges[p])}

\* mutant: the value is clamped but not rounded to the step
normalizeValueClampOnly(value, range) ==
    IF value > range.max THEN range.max
    ELSE IF value < range.min THEN range.min ELSE value

\* Math.max(range.min, Math.min(range.max, value)), rounded to the step
normalizeValue(value, range) ==
    LET clamped == IF value > range.max THEN range.max
                   ELSE IF value < range.min THEN range.min ELSE value
    IN  ((2 * clamped + range.step) \div (2 * range.step)) * range.step

\* saved parameters that name every parameter
normalizeIndividual(saved) == [p \in params |-> normalizeValue(saved[p], parameterRanges[p])]

\* what normalizeIndividual can return: a parameter the saved object names is
\* clamped and rounded, one it does not name is drawn from the grid
normalizedFrom(saved) ==
    {[p \in params |-> IF p \in DOMAIN saved
                       THEN normalizeValue(saved[p], parameterRanges[p])
                       ELSE drawn[p]] : drawn \in Individuals}

\* Math.random() < rate: the outcomes the draw admits
randomBelow(rate) ==
    {b \in BOOLEAN : (b => RLt(Q(0), rate)) /\ (~b => RLt(rate, Q(1)))}

NegInfinity == [n |-> -1, d |-> 0]

\* mutant: the drawdown thresholds are inclusive
drawdownPenaltyInclusive(maxDrawdown) ==
    IF RLe(Q(30), maxDrawdown) THEN Frac(5, 10)
    ELSE IF RLe(Q(20), maxDrawdown) THEN Frac(7, 10) ELSE Q(1)

\* if (result.maxDrawdown > 30) fitness *= 0.5; else if (> 20) fitness *= 0.7
drawdownPenalty(maxDrawdown) ==
    IF RLt(Q(30), maxDrawdown) THEN Frac(5, 10)
    ELSE IF RLt(Q(20), maxDrawdown) THEN Frac(7, 10) ELSE Q(1)

\* mutant: too few trades add to the fitness
tradePenaltyAdded(fitness, totalTrades) ==
    IF totalTrades < 5 THEN RAdd(fitness, Frac(5, 10)) ELSE fitness

\* if (result.totalTrades < 5) fitness *= 0.5
tradePenalty(fitness, totalTrades) ==
    IF totalTrades < 5 THEN RMul(fitness, Frac(5, 10)) ELSE fitness

\* the try block of evaluatePopulation: the return of the backtest, adjusted
\* step by step
fitnessOf(res) ==
    LET afterDrawdown == RMul(res.totalReturnPercent, drawdownPenalty(res.maxDrawdown))
        afterSharpe == IF RLt(Q(1), res.sharpeRatio)
                       THEN RMul(afterDrawdown, Frac(12, 10)) ELSE afterDrawdown
        afterWinRate == IF RLt(Q(60), res.winRate)
                        THEN RMul(afterSharpe, Frac(11, 10)) ELSE afterSharpe
    IN  tradePenalty(afterWinRate, res.totalTrades)

\* mutant: a run that throws scores 0
fitnessScoreZeroOnThrow(outcome) == IF outcome = THROWS THEN Q(0) ELSE fitnessOf(outcome)

\* one pass of the loop of evaluatePopulation: a run that throws scores -Infinity
fitnessScoreOf(outcome) == IF outcome = THROWS THEN NegInfinity ELSE fitnessOf(outcome)

\* the fitness of every individual of a population on the historical data
evaluatePopulation(pop, data) == [i \in 1..Len(pop) |-> fitnessScoreOf(data[pop[i]])]

\* a > b on numbers that may be -Infinity
greaterThan(a, b) == IF a.d = 0 /\ b.d = 0 THEN a.n > b.n ELSE RLt(b, a)

\* mutant: the comparator sorts ascending
rankOfAscending(fitnessScores, j) ==
    1 + Cardinality({k \in 1..Len(fitnessScores) :
                        greaterThan(fitnessScores[j], fitnessScores[k])})
      + Cardinality({k \in 1..(j - 1) : fitnessScores[k] = fitnessScores[j]})

\* position of individual j after sort((a, b) => b.fitness - a.fitness): higher
\* fitness first, equal fitness in population order (the sort is stable; the
\* difference of two -Infinity is NaN, which the sort takes for 0)
rankOf(fitnessScores, j) ==
    1 + Cardinality({k \in 1..Len(fitnessScores) :
                        greaterThan(fitnessScores[k], fitnessScores[j])})
      + Cardinality({k \in 1..(j - 1) : fitnessScores[k] = fitnessScores[j]})

rankedPopulationOf(pop, fitnessScores) ==
    [r \in 1..Len(pop) |->
        LET j == CHOOSE j \in 1..Len(pop) : rankOf(fitnessScores, j) = r
        IN  [individual |-> pop[j], fitness |-> fitnessScores[j]]]

\* mutant: the elite loop reads the ranking from its end
elitesFromTail(ranked, eliteSize) ==
    [i \in 1..eliteSize |-> ranked[Len(ranked) + 1 - i].individual]

\* createNextGeneration, elite loop: copies of the first eliteSize ranked entries
elitesOf(ranked, eliteSize) == [i \in 1..eliteSize |-> ranked[i].individual]

RECURSIVE reduceWinner(_, _, _)
\* reduce((best, current) => current.fitness > best.fitness ? current : best)
reduceWinner(entries, i, best) ==
    IF i > Len(entries) THEN best
    ELSE reduceWinner(entries, i + 1,
                      IF greaterThan(entries[i].fitness, best.fitness)
                      THEN entries[i] ELSE best)

\* draws: the three random indexes
tournamentSelection(ranked, draws) ==
    LET tournament == [i \in 1..3 |-> ranked[draws[i]]]
    IN  reduceWinner(tournament, 2, tournament[1]).individual

\* mutant: the prefix comes from parent 2 and the suffix from parent 1
crossoverSwapped(parent1, parent2, crossoverPoint) ==
    [p \in params |-> IF p - 1 < crossoverPoint THEN parent2[p] ELSE parent1[p]]

\* crossoverPoint: Math.floor(Math.random() * params.length), counted from 0
crossover(parent1, parent2, crossoverPoint) ==
    [p \in params |-> IF p - 1 < crossoverPoint THEN parent1[p] ELSE parent2[p]]

mutate(individual, paramToMutate, value) ==
    [individual EXCEPT ![paramToMutate] = value]

\* mutant: mutate writes into its argument
argumentMutatedInPlace(individual, paramToMutate, value) ==
    mutate(individual, paramToMutate, value)

\* const mutated = { ...individual }: the argument object after the call
argumentAfterMutate(individual, paramToMutate, value) == individual

\* the parents the tournaments can return
selectedFrom(ranked) ==
    {tournamentSelection(ranked, draws) : draws \in [1..3 -> 1..Len(ranked)]}

\* the offspring before mutation
crossedFrom(ranked, crossoverRate) ==
    {IF doCross THEN crossover(parent1, parent2, point) ELSE parent1 :
        parent1 \in selectedFrom(ranked), parent2 \in selectedFrom(ranked),
        point \in 0..(Len(parameterRanges) - 1), doCross \in randomBelow(crossoverRate)}

\* what mutate can return: one parameter redrawn from its own grid
mutatedFrom(individual) ==
    UNION {{mutate(individual, p, v) : v \in possibleValues(parameterRanges[p])} :
              p \in params}

\* every offspring one pass of the while loop of createNextGeneration can push
offspringFrom(ranked, cfg) ==
    UNION {(IF FALSE \in randomBelow(cfg.mutationRate) THEN {offspring} ELSE {})
           \cup (IF TRUE \in randomBelow(cfg.mutationRate)
                 THEN mutatedFrom(offspring) ELSE {}) :
              offspring \in crossedFrom(ranked, cfg.crossoverRate)}

\* mutant: of the generations with the best fitness the latest is returned
optimalOfLatest(best) ==
    LET g == CHOOSE i \in 1..Len(best) :
                 /\ \A k \in 1..Len(best) : ~greaterThan(best[k].fitness, best[i].fitness)
                 /\ \A k \in (i + 1)..Len(best) : greaterThan(best[i].fitness, best[k].fitness)
    IN  [parameters |-> best[g].parameters, fitness |-> best[g].fitness,
         generation |-> best[g].generation]

\* mutant: the while loop breeds a whole population on top of the elites
offspringCountFull(cfg, elites) == cfg.populationSize

\* while (nextGeneration.length < this.config.populationSize): passes of the loop
offspringCount(cfg, elites) ==
    IF Len(elites) < cfg.populationSize THEN cfg.populationSize - Len(elites) ELSE 0

\* the final reduce of optimize(): the earliest generation with the best fitness
optimalOf(best) ==
    LET winner == reduceWinner(best, 2, best[1])
    IN  [parameters |-> winner.parameters, fitness |-> winner.fitness,
         generation |-> winner.generation]

(***************************************************************************)
(* Inputs of an optimization                                               *)
(***************************************************************************)
\* most generations of a run
MaxGenerations == 2

OptimizerConfigs ==
    {[populationSize |-> n, generations |-> g] : n \in {2, 3}, g \in 1..MaxGenerations}
    \cup UNION {{[populationSize |-> n, generations |-> g, eliteSize |-> e] :
                    g \in 1..MaxGenerations, e \in {0, 1, n}} : n \in {2, 3}}

\* optimal_config.json: absent, or parameters outside the ranges
SavedParams == {NULL, <<3, 16>>}

\* a result no adjustment of the fitness function applies to
plainResult(totalReturnPercent) ==
    [totalReturnPercent |-> Q(totalReturnPercent), maxDrawdown |-> Q(10),
     sharpeRatio |-> Q(0), winRate |-> Q(50), totalTrades |-> 10]

\* what evaluatePopulation reads of the result of a run without a closed
\* trade: its engine has initialBalance 1000000 and the balance never moved
zeroTradeResult ==
    LET bt == BacktestEngine([initialBalance |-> Q(1000000)])
        res == calculateResults(bt, DefaultConfig, <<>>, bt.initialBalance, <<>>)
    IN  [totalReturnPercent |-> res.totalReturnPercent, maxDrawdown |-> res.maxDrawdown,
         sharpeRatio |-> res.sharpeRatio, winRate |-> res.winRate,
         totalTrades |-> res.totalTrades]

\* historical data on which no individual trades
NoTradeData == [ind \in Individuals |-> zeroTradeResult]

\* historical data on which the run of the individual {6, 16} throws
OneThrowsData ==
    [ind \in Individuals |->
        IF ind = <<6, 16>> THEN THROWS ELSE plainResult(2 * ind[1] + ind[2])]

\* historical data on which every run throws (no candle array at all)
AllThrowData == [ind \in Individuals |-> THROWS]

\* historical data, as what backtest.run makes of each individual on it: all
\* different, two equal, no trade at all, one run throwing, every run throwing
HistoricalDataSets ==
    {[ind \in Individuals |-> plainResult(2 * ind[1] + ind[2])],
     [ind \in Individuals |-> plainResult(ind[1] - ind[2])],
     NoTradeData, OneThrowsData, AllThrowData}

(***************************************************************************)
(* ParameterOptimizer.optimize as a state machine: one action per          *)
(* generation                                                              *)
(***************************************************************************)
InitOptimizer ==
    /\ parameterRanges = OptimizedRanges
    /\ optConfig \in {ParameterOptimizer(c) : c \in OptimizerConfigs}
    /\ savedParams \in SavedParams
    /\ historicalData \in HistoricalDataSets
    /\ population = <<>>
    /\ gen = 0
    /\ bestIndividuals = <<>>
    /\ optPc = "optimize"
    /\ runs = <<>>
    /\ backtestRuns = 0
    /\ config = NULL
    /\ currentPosition = NULL
    /\ tradeHistory = <<>>
    /\ lastCall = [op |-> "new"]
    /\ ret = UNDEFINED
    /\ IdleBacktest

\* initializePopulation: the saved parameters first, the rest drawn at random
InitializePopulation ==
    \E seed \in {IF savedParams = NULL THEN <<>> ELSE <<normalizeIndividual(savedParams)>>} :
    \E rest \in [1..(optConfig.populationSize - Len(seed)) -> Individuals] :
        /\ optPc = "optimize"
        /\ population' = seed \o rest
        /\ optPc' = "loop"
        /\ lastCall' = [op |-> "initializePopulation"]
        /\ UNCHANGED <<optConfig, savedParams, historicalData, gen, bestIndividuals,
                       runs, backtestRuns, parameterRanges>>
        /\ UNCHANGED <<config, currentPosition, tradeHistory, ret>>
        /\ UNCHANGED backtestVars

\* one pass of the generation loop: evaluate, rank, record the best, breed
Generation ==
    /\ optPc = "loop"
    /\ gen < optConfig.generations
    /\ \E fitnessScores \in {evaluatePopulation(population, historicalData)} :
       \E ranked \in {rankedPopulationOf(population, fitnessScores)} :
       \E bred \in IF gen < optConfig.generations - 1
                   THEN [1..offspringCount(optConfig, elitesOf(ranked, optConfig.eliteSize))
                            -> offspringFrom(ranked, optConfig)]
                   ELSE {<<>>} :
           /\ bestIndividuals' =
                  Append(bestIndividuals,
                         [generation |-> gen + 1, fitness |-> ranked[1].fitness,
                          parameters |-> ranked[1].individual])
           /\ IF gen < optConfig.generations - 1
              THEN population' = elitesOf(ranked, optConfig.eliteSize) \o bred
              ELSE population' = population
           /\ gen' = gen + 1
           /\ backtestRuns' = backtestRuns + Len(population)
           /\ lastCall' = [op |-> "generation", rankedPopulation |-> ranked]
           /\ UNCHANGED <<optConfig, savedParams, historicalData, optPc, runs,
                          parameterRanges>>
           /\ UNCHANGED <<config, currentPosition, tradeHistory, ret>>
           /\ UNCHANGED backtestVars

\* the loop is over: optimize() returns the best individual seen
OptimizeReturn ==
    /\ optPc = "loop"
    /\ gen = optConfig.generations
    /\ ret' = optimalOf(bestIndividuals)
    /\ runs' = Append(runs, optimalOf(bestIndividuals))
    /\ optPc' = "done"
    /\ lastCall' = [op |-> "optimize"]
    /\ UNCHANGED <<optConfig, savedParams, historicalData, population, gen,
                   bestIndividuals, backtestRuns, parameterRanges>>
    /\ UNCHANGED <<config, currentPosition, tradeHistory>>
    /\ UNCHANGED backtestVars

\* a second optimizer is constructed from the same config and saved parameters
\* and is about to run on the same historical data (followed for one-generation
\* configurations)
OptimizeAgain ==
    /\ optPc = "done"
    /\ Len(runs) < 2
    /\ optConfig.generations = 1
    /\ population' = <<>>
    /\ gen' = 0
    /\ bestIndividuals' = <<>>
    /\ backtestRuns' = 0
    /\ optPc' = "optimize"
    /\ lastCall' = [op |-> "new"]
    /\ ret' = UNDEFINED
    /\ UNCHANGED <<optConfig, savedParams, historicalData, runs, parameterRanges>>
    /\ UNCHANGED <<config, currentPosition, tradeHistory>>
    /\ UNCHANGED backtestVars

NextOptimizer ==
    \/ InitializePopulation
    \/ Generation
    \/ OptimizeReturn
    \/ OptimizeAgain

SpecOptimizer == InitOptimizer /\ [][NextOptimizer]_vars

\* optimize() with a population of two on data that makes runs throw or never
\* trade; the async function goes on from every await, so its next step is
\* eventually taken
InitFaulty ==
    /\ InitOptimizer
    /\ optConfig.populationSize = 2
    /\ historicalData \in {NoTradeData, OneThrowsData, AllThrowData}

SpecOptimizerFair == InitFaulty /\ [][NextOptimizer]_vars /\ WF_vars(NextOptimizer)

(***************************************************************************)
(* The fitness function of evaluatePopulation on one backtest result       *)
(***************************************************************************)
\* results on and around every threshold of the fitness function
BacktestSummaries ==
    [totalReturnPercent : {Q(-10), Q(0), Q(10)},
     maxDrawdown : {Q(10), Q(20), Q(25), Q(30), Q(35)},
     sharpeRatio : {Frac(1, 2), Q(1), Q(2)},
     winRate : {Q(50), Q(60), Q(70)},
     totalTrades : {0, 4, 5, 10}]

InitFitness ==
    /\ lastCall \in [op : {"pending"}, fn : {"evaluatePopulation"},
                      outcome : BacktestSummaries \cup {THROWS}]
    /\ ret = UNDEFINED
    /\ config = NULL
    /\ currentPosition = NULL
    /\ tradeHistory = <<>>
    /\ IdleBacktest
    /\ IdleOptimizer

\* the body of the for loop of evaluatePopulation for one individual
EvaluateIndividual ==
    /\ lastCall.op = "pending"
    /\ lastCall.fn = "evaluatePopulation"
    /\ ret' = fitnessScoreOf(lastCall.outcome)
    /\ lastCall' = [lastCall EXCEPT !.op = "returned"]
    /\ UNCHANGED <<config, currentPosition, tradeHistory>>
    /\ UNCHANGED <<backtestVars, optimizerVars>>

NextFitness == EvaluateIndividual

SpecFitness == InitFitness /\ [][NextFitness]_vars

(***************************************************************************)
(* evaluatePopulation on a population of two, every run followed candle by *)
(* candle.  An individual is the object with its named parameters; seven   *)
(* of the twenty are left out (macdSlow, macdSignal, bbStdDev, emaMid,     *)
(* emaLong, volumePeriod: no code reads them either).  The historical data *)
(* are the candles after the 200-candle look-back, each with what the      *)
(* indicators make of the window before it for every period they may be    *)
(* called with.                                                            *)
(***************************************************************************)
\* the parameters the fitness is said to depend on, on grid points of their ranges
SevenParameters ==
    [rsiPeriod : {7, 14}, rsiOversold : {30, 45}, rsiOverbought : {70},
     buyThreshold : {Q(55), Q(58)}, sellThreshold : {Q(55)},
     stopLossPercent : {Q(5), Q(15)}, takeProfitPercent : {Q(10), Q(30)}]

\* the other parameters of an individual, on grid points of their ranges
OtherParameters ==
    [macdFast : {12, 5}, bbPeriod : {20, 10}, emaShort : {5, 3},
     trailingStopPercent : {Q(5), Frac(1, 2)}, volumeMultiplier : {Q(1), Q(3)},
     technicalWeight : {Frac(9, 10), Frac(4, 10)},
     investmentRatio : {Frac(2, 100), Frac(15, 100)}]

PlainOthers ==
    [macdFast |-> 12, bbPeriod |-> 20, emaShort |-> 5, trailingStopPercent |-> Q(5),
     volumeMultiplier |-> Q(1), technicalWeight |-> Frac(9, 10),
     investmentRatio |-> Frac(2, 100)]

\* populations of two: the same seven parameters with any others, or plain
\* others with any seven
EvaluatedPopulations ==
    {<<seven @@ PlainOthers, seven @@ others>> :
        seven \in SevenParameters, others \in OtherParameters}
    \cup {<<seven1 @@ PlainOthers, seven2 @@ PlainOthers>> :
            seven1 \in SevenParameters, seven2 \in SevenParameters}

\* a candle whose window reads as a buy: how strongly depends on the periods
risingCandle(price) ==
    [price |-> Q(price),
     rsi |-> (7 :> 2000 @@ 14 :> 4200),
     macdHistogram |-> (12 :> 200 @@ 5 :> -600),
     bbLower |-> (20 :> 9500 @@ 10 :> 10100),
     bbCurrent |-> 10000, bbUpper |-> 10500, crossover |-> "none",
     isHighVolume |-> FALSE]

\* a candle whose window reads as a sell with the default periods
fallingCandle(price) ==
    [price |-> Q(price),
     rsi |-> (7 :> 8000 @@ 14 :> 8000),
     macdHistogram |-> (12 :> -600 @@ 5 :> 200),
     bbLower |-> (20 :> 9500 @@ 10 :> 10100),
     bbCurrent |-> 10000, bbUpper |-> 10500, crossover |-> "dead",
     isHighVolume |-> FALSE]

EvaluationData ==
    {<<risingCandle(100), risingCandle(120), fallingCandle(90)>>,
     <<risingCandle(100), risingCandle(90), risingCandle(120)>>,
     <<risingCandle(100), risingCandle(108), fallingCandle(108)>>,
     <<risingCandle(100)>>}

\* comprehensiveAnalysis on the window before a candle: each indicator is called
\* with the period the config names or its default; checkCrossover and
\* analyzeVolume take no period
comprehensiveAnalysisOn(candle, cfg) ==
    LET c == AnalysisConfig(cfg)
    IN  technicalAnalysisOf(
            [rsi |-> candle.rsi[c.rsiPeriod],
             macdHistogram |-> candle.macdHistogram[c.macdFast],
             bbCurrent |-> candle.bbCurrent, bbLower |-> candle.bbLower[c.bbPeriod],
             bbUpper |-> candle.bbUpper, crossover |-> candle.crossover,
             isHighVolume |-> candle.isHighVolume],
            Q(c.rsiOversold), Q(c.rsiOverbought))

\* mutant: the individual is spread last, so its own technicalWeight wins
strategyConfigOfSpreadLast(individual) ==
    [k \in (DOMAIN individual) \cup {"investmentAmount", "technicalWeight", "newsWeight"} |->
        IF k \in DOMAIN individual THEN individual[k]
        ELSE IF k = "investmentAmount" THEN Q(100000) ELSE Frac(1, 10)]

\* { ...individual, investmentAmount: 100000, technicalWeight: 0.9, newsWeight: 0.1 }
strategyConfigOf(individual) ==
    [k \in (DOMAIN individual) \cup {"investmentAmount", "technicalWeight", "newsWeight"} |->
        IF k = "investmentAmount" THEN Q(100000)
        ELSE IF k = "technicalWeight" THEN Frac(9, 10)
        ELSE IF k = "newsWeight" THEN Frac(1, 10)
        ELSE individual[k]]

RECURSIVE lcmFrom(_, _)
\* the least common denominator of the returns from the i-th on
lcmFrom(xs, i) ==
    IF i > Len(xs) THEN 1
    ELSE LET rest == lcmFrom(xs, i + 1) IN (xs[i].d \div GCD(xs[i].d, rest)) * rest

RECURSIVE gcdFrom(_, _)
gcdFrom(ks, i) == IF i > Len(ks) THEN 0 ELSE GCD(Abs(ks[i]), gcdFrom(ks, i + 1))

RECURSIVE sumFrom(_, _)
sumFrom(ks, i) == IF i > Len(ks) THEN 0 ELSE ks[i] + sumFrom(ks, i + 1)

\* calculateSharpeRatio, carried as sign * value^2 (the square root is not a
\* rational), which is above 1 exactly when the Sharpe ratio is.  With the
\* returns as integer multiples k[i] of one unit, n of them, avgReturn^2 * 365
\* / variance is 365 * (sum k)^2 / (n * sum k^2 - (sum k)^2), and the variance
\* has the sign of the denominator.
calculateSharpeRatioSquared(hist) ==
    IF Len(hist) < 2 THEN Q(0)
    ELSE LET returns == [i \in 1..(Len(hist) - 1) |->
                            RDiv(RSub(hist[i + 1].balance, hist[i].balance),
                                 hist[i].balance)]
             n == Len(returns)
             unit == lcmFrom(returns, 1)
             scaled == [i \in 1..n |-> returns[i].n * (unit \div returns[i].d)]
             g == gcdFrom(scaled, 1)
             k == [i \in 1..n |-> IF g = 0 THEN 0 ELSE scaled[i] \div g]
             total == sumFrom(k, 1)
             squares == sumFrom([i \in 1..n |-> k[i] * k[i]], 1)
             spread == n * squares - total * total
         IN  IF spread > 0
             THEN Frac((IF total < 0 THEN -365 ELSE 365) * total * total, spread)
             ELSE Q(0)

\* new BacktestEngine({ initialBalance: 1000000 }).  Money is exact, so the
\* default rates 0.0005 and 0.001, whose returns do not fit the integer width
\* once squared, are taken as 0
EvaluationEngine ==
    BacktestEngine([initialBalance |-> Q(1000000), tradingFee |-> Q(0),
                    slippage |-> Q(0)])

InitEvaluation ==
    \E pop \in EvaluatedPopulations, data \in EvaluationData :
        /\ optConfig = ParameterOptimizer([populationSize |-> 2])
        /\ parameterRanges = <<>>
        /\ savedParams = NULL
        /\ historicalData = data
        /\ population = pop
        /\ gen = 0
        /\ bestIndividuals = <<>>
        /\ optPc = "evaluating"
        /\ runs = <<>>
        /\ backtestRuns = 0
        /\ btConfig = EvaluationEngine
        /\ instance = newInstance
        /\ config = TradingStrategy(strategyConfigOf(pop[1]))
        /\ currentPosition = NULL
        /\ tradeHistory = <<>>
        /\ pc = "loop"
        /\ balance = balanceAtStart(EvaluationEngine, newInstance)
        /\ position = NULL
        /\ trades = <<>>
        /\ balanceHistory = <<>>
        /\ candleIndex = 0
        /\ lastPrice = NULL
        /\ result = NULL
        /\ lastCall = [op |-> "evaluatePopulation"]
        /\ ret = <<>>

\* one iteration of the loop of run() for the individual being evaluated
EvaluationStep ==
    \E candle \in {historicalData[i] : i \in {candleIndex + 1} \cap DOMAIN historicalData} :
    \E ta \in {comprehensiveAnalysisOn(candle, analysisConfigOf(config))} :
    \E decision \in {makeDecision(config, currentPosition, ta, mockNewsSentiment,
                                  candle.price)} :
    \E s1 \in {stopCheck(btConfig, config, SimState, candle.price, candleIndex + 1)} :
    \E s2 \in {buySignal(btConfig, config, s1, decision, candle.price, candleIndex + 1)} :
    \E st \in {sellSignal(btConfig, s2, decision, candle.price, candleIndex + 1)} :
        /\ optPc = "evaluating"
        /\ candleIndex < Len(historicalData)
        /\ ~technicalAnalysisIsNull
        /\ candleIndex' = candleIndex + 1
        /\ lastPrice' = candle.price
        /\ balance' = st.balance
        /\ position' = st.position
        /\ currentPosition' = st.strategyPosition
        /\ trades' = st.trades
        /\ balanceHistory' =
               Append(balanceHistory, equitySample(st, candle.price, candleIndex + 1))
        /\ lastCall' = [op |-> "step", decision |-> decision]
        /\ UNCHANGED <<config, tradeHistory, ret, btConfig, pc, result, instance>>
        /\ UNCHANGED optimizerVars

\* the run of one individual ends: its result, its fitness, and the run of the
\* next individual starts on the same engine, or the scores are returned
EvaluationNext ==
    \E st \in {finalClose(btConfig, SimState, lastPrice, candleIndex)} :
    \E res \in {calculateResults(btConfig, config, st.trades, st.balance, balanceHistory)
                @@ [sharpeRatio |-> calculateSharpeRatioSquared(balanceHistory)]} :
        /\ optPc = "evaluating"
        /\ candleIndex = Len(historicalData)
        /\ result' = res
        /\ instance' = instanceAfterRun(instance, res, st.trades)
        /\ ret' = Append(ret, fitnessScoreOf(res))
        /\ backtestRuns' = backtestRuns + 1
        /\ lastCall' = [op |-> "evaluated", individual |-> Len(ret) + 1]
        /\ IF Len(ret) + 1 < Len(population)
           THEN /\ config' = TradingStrategy(strategyConfigOf(population[Len(ret) + 2]))
                /\ currentPosition' = NULL
                /\ balance' = balanceAtStart(btConfig, instance')
                /\ position' = NULL
                /\ trades' = <<>>
                /\ balanceHistory' = <<>>
                /\ candleIndex' = 0
                /\ lastPrice' = NULL
                /\ UNCHANGED <<pc, optPc>>
           ELSE /\ optPc' = "evaluated"
                /\ pc' = "done"
                /\ balance' = st.balance
                /\ trades' = st.trades
                /\ UNCHANGED <<config, currentPosition, position, balanceHistory,
                               candleIndex, lastPrice>>
        /\ UNCHANGED <<tradeHistory, btConfig>>
        /\ UNCHANGED <<optConfig, savedParams, historicalData, population, gen,
                       bestIndividuals, runs, parameterRanges>>

NextEvaluation ==
    \/ EvaluationStep
    \/ EvaluationNext

SpecEvaluation == InitEvaluation /\ [][NextEvaluation]_vars

(***************************************************************************)
(* The genetic operators called on their own, on an optimizer whose        *)
(* parameterRanges are four of the 19, each cut to its three lowest grid   *)
(* points.  Fractional parameters are counted in units of their last       *)
(* decimal: stopLossPercent in tenths, technicalWeight in hundredths.      *)
(***************************************************************************)
\* rsiPeriod, emaLong, stopLossPercent, technicalWeight
OperatorRanges ==
    <<[min |-> 5, max |-> 7, step |-> 1], [min |-> 30, max |-> 40, step |-> 5],
      [min |-> 10, max |-> 20, step |-> 5], [min |-> 40, max |-> 50, step |-> 5]>>

\* optimal_config.json parameters: absent, below the range, between two grid
\* points, above the range
SavedObjects ==
    {[p \in {q \in DOMAIN kind : kind[q] # "absent"} |->
         CASE kind[p] = "below" -> OperatorRanges[p].min - 2
           [] kind[p] = "between" -> OperatorRanges[p].min + 3
           [] kind[p] = "above" -> OperatorRanges[p].max + 7] :
        kind \in [1..Len(OperatorRanges) -> {"absent", "below", "between", "above"}]}

InitOperators ==
    /\ parameterRanges = OperatorRanges
    /\ optConfig = ParameterOptimizer([populationSize |-> 2])
    /\ savedParams = NULL
    /\ historicalData = NULL
    /\ population = <<>>
    /\ gen = 0
    /\ bestIndividuals = <<>>
    /\ optPc = "operators"
    /\ runs = <<>>
    /\ backtestRuns = 0
    /\ lastCall \in
          [op : {"pending"}, fn : {"crossover"}, parent1 : Individuals,
           parent2 : Individuals]
          \cup [op : {"pending"}, fn : {"mutate"}, individual : Individuals]
          \cup [op : {"pending"}, fn : {"normalizeIndividual"}, params : SavedObjects]
          \cup [op : {"pending"}, fn : {"createRandomIndividual"}]
    /\ ret = UNDEFINED
    /\ config = NULL
    /\ currentPosition = NULL
    /\ tradeHistory = <<>>
    /\ IdleBacktest

OperatorReturns(value, call) ==
    /\ ret' = value
    /\ lastCall' = call
    /\ UNCHANGED <<config, currentPosition, tradeHistory>>
    /\ UNCHANGED <<backtestVars, optimizerVars>>

CallCrossover ==
    /\ lastCall.op = "pending"
    /\ lastCall.fn = "crossover"
    /\ \E crossoverPoint \in 0..(Len(parameterRanges) - 1) :
          OperatorReturns(crossover(lastCall.parent1, lastCall.parent2, crossoverPoint),
                          [lastCall EXCEPT !.op = "returned"])

CallMutate ==
    /\ lastCall.op = "pending"
    /\ lastCall.fn = "mutate"
    /\ \E paramToMutate \in params :
       \E value \in possibleValues(parameterRanges[paramToMutate]) :
          OperatorReturns(mutate(lastCall.individual, paramToMutate, value),
                          [lastCall EXCEPT
                              !.op = "returned",
                              !.individual = argumentAfterMutate(lastCall.individual,
                                                                 paramToMutate, value)])

CallNormalizeIndividual ==
    /\ lastCall.op = "pending"
    /\ lastCall.fn = "normalizeIndividual"
    /\ \E normalized \in normalizedFrom(lastCall.params) :
          OperatorReturns(normalized, [lastCall EXCEPT !.op = "returned"])

CallCreateRandomIndividual ==
    /\ lastCall.op = "pending"
    /\ lastCall.fn = "createRandomIndividual"
    /\ \E individual \in Individuals :
          OperatorReturns(individual, [lastCall EXCEPT !.op = "returned"])

NextOperators ==
    \/ CallCrossover
    \/ CallMutate
    \/ CallNormalizeIndividual
    \/ CallCreateRandomIndividual

SpecOperators == InitOperators /\ [][NextOperators]_vars

(***************************************************************************)
(* Properties of the optimizer (checked under SpecOptimizer)               *)
(***************************************************************************)
\* generation N (population) is replaced by generation N+1 (population')
GenerationTransition == gen' = gen + 1 /\ gen' < optConfig.generations

\* a generation has just been evaluated and ranked
GenerationEvaluated == lastCall'.op = "generation"

\* optimize() has returned after all its generations
Returned ==
    /\ optPc = "done"
    /\ gen = optConfig.generations
    /\ Len(bestIndividuals) = optConfig.generations
    /\ DOMAIN ret = {"parameters", "fitness", "generation"}

\* fitness an individual scores on the historical data
FitnessOf(individual) == fitnessScoreOf(historicalData[individual])

\* how many members of generation N score more than / at least as much as member j
NumHigher(pop, j) ==
    Cardinality({k \in 1..Len(pop) : greaterThan(FitnessOf(pop[k]), FitnessOf(pop[j]))})

NumAtLeast(pop, j) ==
    Cardinality({k \in 1..Len(pop) : ~greaterThan(FitnessOf(pop[j]), FitnessOf(pop[k]))})

\* member j of generation N holds rank i by fitness (equal fitness shares ranks)
HoldsRank(pop, j, i) == NumHigher(pop, j) < i /\ i <= NumAtLeast(pop, j)

\* C18: in every generation transition the first eliteSize individuals of the
\* new generation are, position by position, distinct members of the old
\* generation holding fitness ranks 1..eliteSize, with every parameter unchanged.
C18_ElitesKept ==
    [][GenerationTransition =>
          \E from \in [1..optConfig.eliteSize -> 1..Len(population)] :
              /\ \A a, b \in 1..optConfig.eliteSize : a # b => from[a] # from[b]
              /\ \A i \in 1..optConfig.eliteSize :
                    /\ \A p \in params : population'[i][p] = population[from[i]][p]
                    /\ HoldsRank(population, from[i], i)]_vars

\* a second generation of three whose two elites differ and whose third member,
\* bred from them, scores more than both
C18_Witness ==
    /\ optPc = "loop"
    /\ gen = 1
    /\ optConfig.generations = 2
    /\ optConfig.eliteSize = 2
    /\ Len(population) = 3
    /\ population[1] = bestIndividuals[1].parameters
    /\ greaterThan(FitnessOf(population[1]), FitnessOf(population[2]))
    /\ greaterThan(FitnessOf(population[3]), FitnessOf(population[1]))

\* the mean of two fitness values; -Infinity absorbs
MeanOf(a, b) ==
    IF a.d = 0 THEN a ELSE IF b.d = 0 THEN b ELSE RDiv(RAdd(a, b), Q(2))

\* the median fitness of a population
MedianOf(pop) ==
    LET ranked == rankedPopulationOf(pop, evaluatePopulation(pop, historicalData))
        n == Len(pop)
    IN  IF n % 2 = 1 THEN ranked[(n + 1) \div 2].fitness
        ELSE MeanOf(ranked[n \div 2].fitness, ranked[n \div 2 + 1].fitness)

ElitesAtLeastMedian ==
    \A i \in 1..optConfig.eliteSize :
        ~greaterThan(MedianOf(population), FitnessOf(population'[i]))

\* C19 as stated: every elite carried into generation N+1 has a fitness of at
\* least the median fitness of generation N.
C19_Original == [][GenerationTransition => ElitesAtLeastMedian]_vars

\* C19 amended: the same, when the elites are at most half of the population
\* (rounded up).
C19_EliteMedian ==
    [][(GenerationTransition /\ 2 * optConfig.eliteSize <= Len(population) + 1)
          => ElitesAtLeastMedian]_vars

\* two elites out of three, of different fitness, carried into generation 2
C19_Witness ==
    /\ optPc = "loop"
    /\ gen = 1
    /\ optConfig.generations = 2
    /\ optConfig.eliteSize = 2
    /\ optConfig.populationSize = 3
    /\ greaterThan(FitnessOf(population[1]), FitnessOf(population[2]))
    /\ greaterThan(FitnessOf(population[2]), FitnessOf(population[3]))
    /\ bestIndividuals[1].fitness = FitnessOf(population[1])

\* all of the population carried over as elites: the last one is below the median
C19_AllEliteSeen ==
    /\ optPc = "loop"
    /\ gen = 1
    /\ optConfig.eliteSize = Len(population)
    /\ greaterThan(FitnessOf(population[1]), FitnessOf(population[Len(population)]))

\* C22: an individual whose fitness is -Infinity is never returned as a parent
\* by tournament selection and never carried into the next generation as an
\* elite.
C22_Culled ==
    [][GenerationTransition =>
          /\ \A i \in 1..optConfig.eliteSize : FitnessOf(population'[i]) # NegInfinity
          /\ \A parent \in selectedFrom(lastCall'.rankedPopulation) :
                FitnessOf(parent) # NegInfinity]_vars

\* an individual whose evaluation threw leads generation 2 as an elite
C22_FailedEliteSeen ==
    /\ optPc = "loop"
    /\ gen = 1
    /\ optConfig.eliteSize >= 1
    /\ FitnessOf(population[1]) = NegInfinity

\* a tournament over a ranking led by a successful individual can return one
\* whose evaluation threw (the same index drawn three times)
C22_FailedParentSeen ==
    /\ optPc = "loop"
    /\ gen = 1
    /\ lastCall.op = "generation"
    /\ lastCall.rankedPopulation[1].fitness # NegInfinity
    /\ \E parent \in selectedFrom(lastCall.rankedPopulation) :
          FitnessOf(parent) = NegInfinity

\* no member of the population scores more than fitness f
IsHighestFitness(pop, f) ==
    /\ \E j \in 1..Len(pop) : FitnessOf(pop[j]) = f
    /\ \A j \in 1..Len(pop) : ~greaterThan(FitnessOf(pop[j]), f)

C25_LaterBetterSeen ==
    /\ optPc = "done"
    /\ optConfig.generations = 2
    /\ greaterThan(bestIndividuals[2].fitness, bestIndividuals[1].fitness)
    /\ ret.generation = 2
    /\ ret.parameters = bestIndividuals[2].parameters

\* without elites the second generation did worse than the first
C25_LaterWorseSeen ==
    /\ optPc = "done"
    /\ optConfig.generations = 2
    /\ optConfig.eliteSize = 0
    /\ greaterThan(bestIndividuals[1].fitness, bestIndividuals[2].fitness)
    /\ ret.generation = 1

\* C27: with 0 <= eliteSize <= populationSize, the population evaluated in every
\* generation has exactly populationSize individuals: initializePopulation and
\* every createNextGeneration return exactly populationSize individuals, and
\* optimize has performed exactly generations * populationSize backtest runs
\* when it returns.
C27_PopulationSize ==
    /\ [](optPc \in {"loop", "done"} =>
             /\ optConfig.eliteSize \in 0..optConfig.populationSize
             /\ Len(population) = optConfig.populationSize
             /\ backtestRuns = gen * optConfig.populationSize)
    /\ [][(lastCall'.op = "initializePopulation" \/ GenerationTransition) =>
             Len(population') = optConfig.populationSize]_vars
    /\ [][GenerationEvaluated =>
             /\ Len(lastCall'.rankedPopulation) = optConfig.populationSize
             /\ backtestRuns' = backtestRuns + optConfig.populationSize]_vars
    /\ [](optPc = "done" =>
             backtestRuns = optConfig.generations * optConfig.populationSize)

\* two generations of three without elites: 6 backtest runs
C27_Witness ==
    /\ optPc = "done"
    /\ optConfig.populationSize = 3
    /\ optConfig.generations = 2
    /\ optConfig.eliteSize = 0
    /\ Len(population) = 3
    /\ backtestRuns = 6

\* a second generation made of elites only
C27_AllEliteSeen ==
    /\ optPc = "done"
    /\ optConfig.generations = 2
    /\ optConfig.eliteSize = optConfig.populationSize
    /\ savedParams # NULL
    /\ backtestRuns = 2 * optConfig.populationSize

C37_EliteStillBestSeen ==
    /\ optPc = "done"
    /\ optConfig.generations = 2
    /\ optConfig.eliteSize >= 1
    /\ bestIndividuals[2] = [bestIndividuals[1] EXCEPT !.generation = 2]
    /\ bestIndividuals[1].fitness # NegInfinity
    /\ \E j \in 2..Len(population) :
          greaterThan(ret.fitness, FitnessOf(population[j]))

\* C20: two runs of the optimizer with the same configuration, the same saved
\* parameters and the same historical data return the same parameters, fitness
\* and generation.
C20_Deterministic == Len(runs) = 2 => runs[1] = runs[2]

\* both runs have returned
C20_TwoRunsSeen == Len(runs) = 2 /\ optPc = "done"

(***************************************************************************)
(* Properties of the optimizer on faulty data (checked under               *)
(* SpecOptimizerFair)                                                      *)
(***************************************************************************)
\* C21: when the evaluation of an individual throws, that individual scores
\* -Infinity and every other individual of the population is still evaluated
\* and scores its normal fitness; optimize still runs all its generations and
\* returns a result.
C21_ThrowIsolated ==
    /\ [][GenerationEvaluated =>
             LET ranked == lastCall'.rankedPopulation
             IN  /\ Len(ranked) = Len(population)
                 /\ \A j \in 1..Len(population) :
                       \E r \in 1..Len(ranked) : ranked[r].individual = population[j]
                 /\ \A r \in 1..Len(ranked) :
                       IF historicalData[ranked[r].individual] = THROWS
                       THEN ranked[r].fitness = NegInfinity
                       ELSE ranked[r].fitness =
                                fitnessOf(historicalData[ranked[r].individual])]_vars
    /\ [](optPc = "done" => Returned)
    /\ (optPc = "optimize") ~> Returned

\* the last generation of a run held an individual whose evaluation threw and
\* one whose evaluation did not
C21_Witness ==
    /\ lastCall.op = "generation"
    /\ gen = optConfig.generations
    /\ gen = 2
    /\ historicalData = OneThrowsData
    /\ \E r \in 1..Len(lastCall.rankedPopulation) :
          lastCall.rankedPopulation[r].fitness = NegInfinity
    /\ lastCall.rankedPopulation[1].fitness # NegInfinity

\* and that run returned
C21_ReturnSeen ==
    /\ Returned
    /\ historicalData = OneThrowsData
    /\ ret.generation = 2

\* no individual of the population closes a trade on the historical data
NoIndividualTrades ==
    \A j \in 1..Len(population) :
        /\ historicalData[population[j]] # THROWS
        /\ historicalData[population[j]].totalTrades = 0

\* C23: when every individual of the population produces zero trades, every
\* fitness is <= 0 (the zero return, halved for fewer than 5 trades), and
\* optimize completes all its generations and returns a result.
C23_NoTradesTerminates ==
    /\ [][(GenerationEvaluated /\ NoIndividualTrades) =>
             \A r \in 1..Len(lastCall'.rankedPopulation) :
                 ~greaterThan(lastCall'.rankedPopulation[r].fitness, Q(0))]_vars
    /\ []((optPc = "done" /\ historicalData = NoTradeData) =>
             (Returned /\ ~greaterThan(ret.fitness, Q(0))))
    /\ (optPc = "optimize" /\ historicalData = NoTradeData) ~> Returned

\* two generations on data no individual trades on have returned fitness 0
C23_Witness ==
    /\ Returned
    /\ historicalData = NoTradeData
    /\ optConfig.generations = 2
    /\ backtestRuns = 4
    /\ ret.fitness = Q(0)

(***************************************************************************)
(* Properties of the fitness function (checked under SpecFitness)          *)
(***************************************************************************)
FitnessReturned ==
    /\ lastCall.op = "returned"
    /\ lastCall.fn = "evaluatePopulation"
    /\ lastCall.outcome # THROWS

\* C24: fitness = totalReturnPercent * d * s * w * t with d = 0.5 if maxDrawdown
\* > 30, 0.7 if 20 < maxDrawdown <= 30, else 1; s = 1.2 if sharpeRatio > 1, else
\* 1; w = 1.1 if winRate > 60, else 1; t = 0.5 if totalTrades < 5, else 1.
C24_Fitness ==
    FitnessReturned =>
        LET r == lastCall.outcome
            d == IF RLt(Q(30), r.maxDrawdown) THEN Frac(1, 2)
                 ELSE IF RLt(Q(20), r.maxDrawdown) /\ RLe(r.maxDrawdown, Q(30))
                      THEN Frac(7, 10) ELSE Q(1)
            s == IF RLt(Q(1), r.sharpeRatio) THEN Frac(6, 5) ELSE Q(1)
            w == IF RLt(Q(60), r.winRate) THEN Frac(11, 10) ELSE Q(1)
            tt == IF r.totalTrades < 5 THEN Frac(1, 2) ELSE Q(1)
        IN  ret = RMul(RMul(RMul(RMul(r.totalReturnPercent, d), s), w), tt)

\* every factor applies at once: 10 * 0.5 * 1.2 * 1.1 * 0.5 = 3.3
C24_Witness ==
    /\ FitnessReturned
    /\ lastCall.outcome.totalReturnPercent = Q(10)
    /\ lastCall.outcome.maxDrawdown = Q(35)
    /\ lastCall.outcome.sharpeRatio = Q(2)
    /\ lastCall.outcome.winRate = Q(70)
    /\ lastCall.outcome.totalTrades = 4
    /\ ret = Frac(33, 10)

\* no factor applies on the thresholds themselves
C24_ThresholdSeen ==
    /\ FitnessReturned
    /\ lastCall.outcome.maxDrawdown = Q(20)
    /\ lastCall.outcome.sharpeRatio = Q(1)
    /\ lastCall.outcome.winRate = Q(60)
    /\ lastCall.outcome.totalTrades = 5
    /\ ret = lastCall.outcome.totalReturnPercent

\* the fitness of a result with the drawdown adjustment and the trade-count
\* adjustment each applied or left out
AdjustedFitness(r, withDrawdown, withTrades) ==
    LET d == IF withDrawdown THEN drawdownPenalty(r.maxDrawdown) ELSE Q(1)
        s == IF RLt(Q(1), r.sharpeRatio) THEN Frac(6, 5) ELSE Q(1)
        w == IF RLt(Q(60), r.winRate) THEN Frac(11, 10) ELSE Q(1)
        tt == IF withTrades /\ r.totalTrades < 5 THEN Frac(1, 2) ELSE Q(1)
    IN  RMul(RMul(RMul(RMul(r.totalReturnPercent, d), s), w), tt)

\* C33: the drawdown (> 20%, > 30%) and fewer-than-5-trades adjustments are
\* penalties: a result to which one of them applies never gets a fitness greater
\* than the same result would get without that adjustment.
C33_Penalties ==
    FitnessReturned =>
        /\ ret = AdjustedFitness(lastCall.outcome, TRUE, TRUE)
        /\ RLt(Q(20), lastCall.outcome.maxDrawdown) =>
              RLe(ret, AdjustedFitness(lastCall.outcome, FALSE, TRUE))
        /\ lastCall.outcome.totalTrades < 5 =>
              RLe(ret, AdjustedFitness(lastCall.outcome, TRUE, FALSE))

\* a losing run with a drawdown above 30%: -10 becomes -5
C33_LossHalvedSeen ==
    /\ FitnessReturned
    /\ lastCall.outcome.totalReturnPercent = Q(-10)
    /\ lastCall.outcome.maxDrawdown = Q(35)
    /\ lastCall.outcome.sharpeRatio = Q(1)
    /\ lastCall.outcome.winRate = Q(50)
    /\ lastCall.outcome.totalTrades = 10
    /\ ret = Q(-5)
    /\ RLt(AdjustedFitness(lastCall.outcome, FALSE, TRUE), ret)

\* on a winning run both adjustments lower the fitness
C33_GainLoweredSeen ==
    /\ FitnessReturned
    /\ lastCall.outcome.totalReturnPercent = Q(10)
    /\ lastCall.outcome.maxDrawdown = Q(25)
    /\ lastCall.outcome.totalTrades = 4
    /\ RLt(ret, AdjustedFitness(lastCall.outcome, FALSE, TRUE))
    /\ RLt(ret, AdjustedFitness(lastCall.outcome, TRUE, FALSE))

(***************************************************************************)
(* Properties of the genetic operators (checked under SpecOperators)       *)
(***************************************************************************)
OperatorReturned(fn) == lastCall.op = "returned" /\ lastCall.fn = fn

\* takes parents' values by the cut c: positions below c from the first parent
CutAt(offspring, c, parent1, parent2) ==
    /\ DOMAIN offspring = params
    /\ \A p \in params :
          offspring[p] = (IF p - 1 < c THEN parent1[p] ELSE parent2[p])

\* C31: crossover(parent1, parent2) returns an offspring that, for some cut index
\* c in the ordered list of parameter names, takes every parameter at a position
\* < c from parent1 and every parameter at a position >= c from parent2; neither
\* parent object is modified.
C31_SinglePoint ==
    /\ [](OperatorReturned("crossover") =>
             \E c \in 0..(Len(parameterRanges) - 1) :
                 CutAt(ret, c, lastCall.parent1, lastCall.parent2))
    /\ [][lastCall.fn = "crossover" =>
             /\ lastCall'.parent1 = lastCall.parent1
             /\ lastCall'.parent2 = lastCall.parent2]_vars

\* parents that differ in every parameter, cut in the middle
C31_Witness ==
    /\ OperatorReturned("crossover")
    /\ \A p \in params : lastCall.parent1[p] # lastCall.parent2[p]
    /\ CutAt(ret, 2, lastCall.parent1, lastCall.parent2)
    /\ ret # lastCall.parent1
    /\ ret # lastCall.parent2

\* cut index 0: the offspring is parent 2
C31_CutZeroSeen ==
    /\ OperatorReturned("crossover")
    /\ \A p \in params : lastCall.parent1[p] # lastCall.parent2[p]
    /\ ret = lastCall.parent2

\* a value for every declared parameter, within [min, max] and on the step grid
OnGrid(individual) ==
    /\ DOMAIN individual = params
    /\ \A p \in params :
          /\ parameterRanges[p].min <= individual[p]
          /\ individual[p] <= parameterRanges[p].max
          /\ (individual[p] - parameterRanges[p].min) % parameterRanges[p].step = 0

\* C32: every individual the operators make (seeded from saved parameters,
\* random, crossover offspring of individuals on the grid, mutated from one)
\* holds a value for every declared parameter, within its [min, max] and on its
\* step grid; mutate changes at most one parameter of a copy and leaves its
\* argument unchanged.
C32_OnGrid ==
    /\ [](lastCall.op = "returned" => OnGrid(ret))
    /\ [](OperatorReturned("mutate") =>
             Cardinality({p \in params : ret[p] # lastCall.individual[p]}) <= 1)
    /\ [][lastCall.fn = "mutate" => lastCall'.individual = lastCall.individual]_vars

\* a saved object naming values below, between and above the grid points
C32_Witness ==
    /\ OperatorReturned("normalizeIndividual")
    /\ lastCall.params = (1 :> 3 @@ 2 :> 33 @@ 3 :> 27)
    /\ ret = <<5, 35, 20, 45>>

\* a mutation that changed one parameter
C32_MutatedSeen ==
    /\ OperatorReturned("mutate")
    /\ lastCall.individual = <<5, 30, 10, 40>>
    /\ ret = <<5, 30, 20, 40>>

\* a mutation that drew the value the parameter already had
C32_SameValueSeen ==
    /\ OperatorReturned("mutate")
    /\ ret = lastCall.individual


(***************************************************************************)
(* Properties of the evaluation (checked under SpecEvaluation)             *)
(***************************************************************************)
SevenKeys ==
    {"rsiPeriod", "rsiOversold", "rsiOverbought", "buyThreshold", "sellThreshold",
     "stopLossPercent", "takeProfitPercent"}

AgreeOnSeven(a, b) == \A k \in SevenKeys : a[k] = b[k]

\* C36: two individuals that agree on rsiPeriod, rsiOversold, rsiOverbought,
\* buyThreshold, sellThreshold, stopLossPercent and takeProfitPercent get the
\* same fitness on the same data, whatever their other parameters.
C36_SevenOnly ==
    (optPc = "evaluated" /\ AgreeOnSeven(population[1], population[2]))
        => ret[1] = ret[2]

\* two individuals that differ in every other parameter, scored alike after a
\* run that traded at a profit
C36_Witness ==
    /\ optPc = "evaluated"
    /\ AgreeOnSeven(population[1], population[2])
    /\ \A k \in DOMAIN PlainOthers : population[1][k] # population[2][k]
    /\ ret[1] = ret[2]
    /\ RLt(Q(0), ret[1])
    /\ result.totalTrades > 0

\* the data tell individuals apart: one of the seven differs and so does the
\* fitness
C36_SevenMatterSeen ==
    /\ optPc = "evaluated"
    /\ \E k \in SevenKeys :
          /\ population[1][k] # population[2][k]
          /\ \A j \in SevenKeys \ {k} : population[1][j] = population[2][j]
    /\ ret[1] # ret[2]

====
